---- MODULE Spec2Model ----
(***************************************************************************)
(* Table reconstruction pipeline of Mistral_Markitdown:                    *)
(*   local path : try_camelot_tables -> reshape_financial_table ->         *)
(*                extract_tables_to_markdown (coalescer, output files)     *)
(*   OCR path   : write_tables_from_ocr (score_table, max, remap, filter)  *)
(*                                                                         *)
(* A Python str is a sequence of one-character strings, so that lower(),   *)
(* strip(), re.sub and the regular expressions are computed character by   *)
(* character.  A DataFrame is a record [cols, rows]; column labels may     *)
(* repeat, as pandas allows.  NaN is the missing value pd.concat fills in. *)
(***************************************************************************)
EXTENDS Integers, Sequences, FiniteSets, TLC

(***************************************************************************)
(* Characters and the str methods the code uses                            *)
(***************************************************************************)
UpperSeq == <<"A","B","C","D","E","F","G","H","I","J","K","L","M",
              "N","O","P","Q","R","S","T","U","V","W","X","Y","Z">>
LowerSeq == <<"a","b","c","d","e","f","g","h","i","j","k","l","m",
              "n","o","p","q","r","s","t","u","v","w","x","y","z">>
DigitSeq == <<"0","1","2","3","4","5","6","7","8","9">>
PunctSeq == <<"\n"," ","$","(",")",",","-",".">>

\* code-point order of the characters
\* (newline < space < $ < ( < ) < , < - < . < 0-9 < : < A-Z < a-z)
CharOrder == PunctSeq \o DigitSeq \o <<":">> \o UpperSeq \o LowerSeq

\* a sequence given by a function constructor, as an explicit tuple
Tup(s) == s \o <<>>

Range(f) == {f[i] : i \in DOMAIN f}

\* a function given by a constructor, with every value computed once
Tab(f) == f @@ <<>>

IsDigit(c) == c \in Range(DigitSeq)
IsLowerAlpha(c) == c \in Range(LowerSeq)
IsAlpha(c) == c \in Range(LowerSeq) \cup Range(UpperSeq)
IsSpace(c) == c \in {" ", "\n"}
IsAlnum(c) == c \in Range(DigitSeq) \cup Range(LowerSeq) \cup Range(UpperSeq)

Ord(c) == CHOOSE i \in 1..Len(CharOrder) : CharOrder[i] = c

\* s[p], or "" behind the end of s
At(s, p) == IF p >= 1 /\ p <= Len(s) THEN s[p] ELSE ""

\* end of the longest run of characters satisfying T that starts at p
RunEnd(s, p, T(_)) ==
  CHOOSE q \in p..(Len(s) + 1) :
    /\ \A i \in p..(q - 1) : T(s[i])
    /\ (q = Len(s) + 1 \/ ~T(s[q]))

\* str.lower() on one character
LowerChar(c) ==
  IF c \in Range(UpperSeq)
  THEN LowerSeq[CHOOSE i \in 1..26 : UpperSeq[i] = c]
  ELSE c

\* str.lower()
Lower(s) == Tup([i \in 1..Len(s) |-> LowerChar(s[i])])

\* index of the first / last non-space character (0 when there is none)
FirstNonSpace(s) ==
  IF \E i \in 1..Len(s) : ~IsSpace(s[i])
  THEN CHOOSE i \in 1..Len(s) : ~IsSpace(s[i]) /\ \A j \in 1..(i-1) : IsSpace(s[j])
  ELSE 0
LastNonSpace(s) ==
  IF \E i \in 1..Len(s) : ~IsSpace(s[i])
  THEN CHOOSE i \in 1..Len(s) : ~IsSpace(s[i]) /\ \A j \in (i+1)..Len(s) : IsSpace(s[j])
  ELSE 0

\* str.strip()
Strip(s) ==
  IF FirstNonSpace(s) = 0 THEN <<>> ELSE SubSeq(s, FirstNonSpace(s), LastNonSpace(s))

\* a in b  (substring test)
Contains(b, a) ==
  \E i \in 0..(Len(b) - Len(a)) : SubSeq(b, i + 1, i + Len(a)) = a

\* s.startswith(p)
StartsWith(s, p) == Len(p) <= Len(s) /\ SubSeq(s, 1, Len(p)) = p

\* re.sub(r"[^a-z]", "", s.lower())
AlphaNorm(s) == SelectSeq(Lower(s), IsLowerAlpha)

\* re.sub(r"\s+", "", s.lower())
SpaceNorm(s) == SelectSeq(Lower(s), LAMBDA c : ~IsSpace(c))

\* " ".join(parts)
RECURSIVE JoinSp(_)
JoinSp(parts) ==
  IF Len(parts) = 0 THEN <<>>
  ELSE IF Len(parts) = 1 THEN parts[1]
  ELSE parts[1] \o <<" ">> \o JoinSp(Tail(parts))

\* a < b for Python str (code-point lexicographic order)
RECURSIVE StrLess(_, _)
StrLess(a, b) ==
  IF Len(b) = 0 THEN FALSE
  ELSE IF Len(a) = 0 THEN TRUE
  ELSE IF a[1] = b[1] THEN StrLess(Tail(a), Tail(b))
  ELSE Ord(a[1]) < Ord(b[1])

\* the missing value (float nan) that pd.concat fills in; never a str
NaN == <<"NaN">>
IsNaN(v) == v = NaN

\* str(v) / astype(str)
AsStr(v) == IF IsNaN(v) THEN <<"n","a","n">> ELSE v

(***************************************************************************)
(* Canonical schema (local_converter.py canonical / months,                *)
(* mistral_converter.py canon_cols)                                        *)
(***************************************************************************)
S_Acct == <<"A","c","c","t">>
S_AccountTitle == <<"A","c","c","o","u","n","t"," ","T","i","t","l","e">>
S_BeginningBalance == <<"B","e","g","i","n","n","i","n","g"," ","B","a","l","a","n","c","e">>
S_January == <<"J","a","n","u","a","r","y">>
S_February == <<"F","e","b","r","u","a","r","y">>
S_March == <<"M","a","r","c","h">>
S_April == <<"A","p","r","i","l">>
S_May == <<"M","a","y">>
S_June == <<"J","u","n","e">>
S_July == <<"J","u","l","y">>
S_August == <<"A","u","g","u","s","t">>
S_September == <<"S","e","p","t","e","m","b","e","r">>
S_October == <<"O","c","t","o","b","e","r">>
S_November == <<"N","o","v","e","m","b","e","r">>
S_December == <<"D","e","c","e","m","b","e","r">>
S_CurrentBalance == <<"C","u","r","r","e","n","t"," ","B","a","l","a","n","c","e">>
S_Unlabeled == <<"U","n","l","a","b","e","l","e","d">>
S_nan == <<"n","a","n">>
S_NaN == <<"N","a","N">>
S_none == <<"n","o","n","e">>
S_dashes == <<"-","-","-">>
Blank == <<>>

\* the 14 amount columns, in order
months == <<S_BeginningBalance, S_January, S_February, S_March, S_April, S_May,
            S_June, S_July, S_August, S_September, S_October, S_November,
            S_December, S_CurrentBalance>>

\* the 16 canonical columns, in order
canonical == <<S_Acct, S_AccountTitle>> \o months

(***************************************************************************)
(* DataFrame helpers (pandas operations the code applies)                  *)
(***************************************************************************)
DataFrame(cols, rows) == [cols |-> cols, rows |-> rows]

\* DataFrame.empty: some axis has length 0
IsEmpty(df) == Len(df.cols) = 0 \/ Len(df.rows) = 0

\* positions of the columns labelled c, in frame order
ColIdx(df, c) == SelectSeq(Tup([i \in 1..Len(df.cols) |-> i]), LAMBDA i : df.cols[i] = c)

HasCol(df, c) == \E i \in 1..Len(df.cols) : df.cols[i] = c

HasDupCols(cols) == \E i, j \in 1..Len(cols) : i < j /\ cols[i] = cols[j]

\* str(i) for a RangeIndex column label
IntStr(i) ==
  IF i < 10 THEN <<DigitSeq[i + 1]>>
  ELSE <<DigitSeq[(i \div 10) + 1], DigitSeq[(i % 10) + 1]>>

RECURSIVE Flatten(_)
Flatten(ss) == IF Len(ss) = 0 THEN <<>> ELSE ss[1] \o Flatten(Tail(ss))

\* labels of a list of frames in order of first appearance (union of Index)
RECURSIVE Dedup(_)
Dedup(s) ==
  IF Len(s) = 0 THEN <<>>
  ELSE LET r == Dedup(SubSeq(s, 1, Len(s) - 1))
       IN IF s[Len(s)] \in Range(r) THEN r ELSE Append(r, s[Len(s)])

\* result of an operation that raised an exception
Raised == [raised |-> TRUE]
IsRaised(x) == "raised" \in DOMAIN x

\* pd.concat(frames, ignore_index=True)
Concat(frames) ==
  IF \A i \in 1..Len(frames) : frames[i].cols = frames[1].cols
  THEN DataFrame(frames[1].cols, Flatten(Tup([i \in 1..Len(frames) |-> frames[i].rows])))
  ELSE IF \E i \in 1..Len(frames) : HasDupCols(frames[i].cols)
  THEN Raised   \* InvalidIndexError: reindexing needs uniquely valued Index
  ELSE LET u == Dedup(Flatten(Tup([i \in 1..Len(frames) |-> frames[i].cols])))
           Re(f) == Tup([r \in 1..Len(f.rows) |->
                       Tup([k \in 1..Len(u) |->
                          IF HasCol(f, u[k]) THEN f.rows[r][ColIdx(f, u[k])[1]] ELSE NaN])])
       IN DataFrame(u, Flatten(Tup([i \in 1..Len(frames) |-> Re(frames[i])])))

(***************************************************************************)
(* Header classifier and ingestion (local_converter.py)                    *)
(***************************************************************************)
HEADER_TOKENS ==
  {Lower(S_Acct), <<"a","c","c","o","u","n","t">>, Lower(S_AccountTitle)}
  \cup {Lower(months[i]) : i \in 1..14}

\* looks_like_tb_header(cells) with two header signals taken for enough
looks_like_tb_header_two(cells) ==
  LET kept == SelectSeq(cells, LAMBDA c : Len(c) > 0 /\ Len(Strip(c)) > 0)
      s == JoinSp(Tup([i \in 1..Len(kept) |-> Strip(Lower(kept[i]))]))
      hits == Cardinality({tok \in HEADER_TOKENS : Contains(s, tok)})
  IN /\ Len(cells) > 0
     /\ Len(Strip(s)) > 0
     /\ \/ hits >= 2
        \/ Contains(s, Lower(S_BeginningBalance)) /\ Contains(s, Lower(S_CurrentBalance))

\* looks_like_tb_header(cells)
looks_like_tb_header(cells) ==
  LET kept == SelectSeq(cells, LAMBDA c : Len(c) > 0 /\ Len(Strip(c)) > 0)
      s == JoinSp(Tup([i \in 1..Len(kept) |-> Strip(Lower(kept[i]))]))
      hits == Cardinality({tok \in HEADER_TOKENS : Contains(s, tok)})
  IN /\ Len(cells) > 0
     /\ Len(Strip(s)) > 0
     /\ \/ hits >= 3
        \/ Contains(s, Lower(S_BeginningBalance)) /\ Contains(s, Lower(S_CurrentBalance))

\* try_camelot_tables, per detected table: raw is the grid t.df (rows of str cells);
\* the first row becomes the column labels when it looks like a header
IngestTable(raw) ==
  LET ncols == IF Len(raw) = 0 THEN 0 ELSE Len(raw[1])
      rangeCols == Tup([i \in 1..ncols |-> IntStr(i - 1)])
  IN IF Len(raw) > 1 /\ looks_like_tb_header(raw[1])
     THEN DataFrame(raw[1], Tail(raw))
     ELSE DataFrame(rangeCols, raw)

(***************************************************************************)
(* Coalescer / deduplicator of extract_tables_to_markdown                  *)
(***************************************************************************)
\* _norm_cols(cols): the header signature
_norm_cols(cols) == Tup([i \in 1..Len(cols) |-> AlphaNorm(cols[i])])

\* groups: dict from signature to the frames carrying it; a dict keeps its keys in
\* insertion order, so groups.values() is ordered by first appearance of the key
GroupKeys(frames) == Dedup(Tup([i \in 1..Len(frames) |-> _norm_cols(frames[i].cols)]))

GroupOf(frames, key) == SelectSeq(frames, LAMBDA d : _norm_cols(d.cols) = key)

\* merged_tables = [pd.concat(g, ignore_index=True) for g in groups.values()]
MergedTables(frames) ==
  LET keys == GroupKeys(frames)
  IN Tup([k \in 1..Len(keys) |-> Concat(GroupOf(frames, keys[k]))])

\* the canonical column an observed label is renamed to in normalize_cols
\* (Blank: the label is not renamed)
RECURSIVE FirstCanonIn(_, _)
FirstCanonIn(nm, k) ==
  IF k > Len(canonical) THEN Blank
  ELSE IF Contains(nm, AlphaNorm(canonical[k])) THEN canonical[k]
  ELSE FirstCanonIn(nm, k + 1)

RenameOf(c) ==
  LET nm == AlphaNorm(c)
      has(w) == Contains(nm, w)
  IN IF has(<<"b","e","g","i","n","n","i","n","g">>) /\ has(<<"b","a","l","a","n","c","e">>)
       THEN S_BeginningBalance
     ELSE IF has(<<"c","u","r","r","e","n","t">>) /\ has(<<"b","a","l","a","n","c","e">>)
       THEN S_CurrentBalance
     ELSE IF nm \in {<<"a","c","c","t">>, <<"a","c","c","o","u","n","t">>,
                     <<"a","c","c","o","u","n","t","i","d">>}
       THEN S_Acct
     ELSE IF has(<<"a","c","c","o","u","n","t">>) /\ has(<<"t","i","t","l","e">>)
       THEN S_AccountTitle
     ELSE FirstCanonIn(nm, 1)

\* normalize_cols(df): rename, add the missing canonical columns, df2[canonical]
normalize_cols(df) ==
  LET to == Tup([i \in 1..Len(df.cols) |-> RenameOf(df.cols[i])])
      renamed == Tup([i \in 1..Len(df.cols) |->
                    IF to[i] = Blank THEN df.cols[i] ELSE to[i]])
      df2 == DataFrame(renamed, df.rows)
      \* for each canonical label: every column carrying it, or 0 for a new "" column
      pick == Flatten(Tup([k \in 1..Len(canonical) |->
                 IF HasCol(df2, canonical[k]) THEN ColIdx(df2, canonical[k]) ELSE <<0>>]))
      lab == Flatten(Tup([k \in 1..Len(canonical) |->
                 IF HasCol(df2, canonical[k])
                 THEN Tup([j \in 1..Len(ColIdx(df2, canonical[k])) |-> canonical[k]])
                 ELSE <<canonical[k]>>]))
  IN DataFrame(lab,
       Tup([r \in 1..Len(df.rows) |->
          Tup([j \in 1..Len(pick) |-> IF pick[j] = 0 THEN Blank ELSE df.rows[r][pick[j]]])]))

\* the (Acct, Account Title) key of a row of a frame with unique key labels
KeyOf(df, row) == <<row[ColIdx(df, S_Acct)[1]], row[ColIdx(df, S_AccountTitle)[1]]>>

\* order of one sort key; NaN sorts last (na_position="last")
ValLess(a, b) ==
  IF IsNaN(a) THEN FALSE ELSE IF IsNaN(b) THEN TRUE ELSE StrLess(a, b)

KeyLess(k1, k2) ==
  ValLess(k1[1], k2[1]) \/ (k1[1] = k2[1] /\ ValLess(k1[2], k2[2]))

\* stable insertion of a row behind every row whose key is not greater
RECURSIVE InsertSorted(_, _, _)
InsertSorted(df, sorted, row) ==
  IF Len(sorted) = 0 THEN <<row>>
  ELSE IF KeyLess(KeyOf(df, row), KeyOf(df, sorted[Len(sorted)]))
       THEN Append(InsertSorted(df, SubSeq(sorted, 1, Len(sorted) - 1), row),
                   sorted[Len(sorted)])
       ELSE Append(sorted, row)

RECURSIVE SortRows(_, _)
SortRows(df, rows) ==
  IF Len(rows) = 0 THEN <<>>
  ELSE InsertSorted(df, SortRows(df, SubSeq(rows, 1, Len(rows) - 1)), rows[Len(rows)])

\* a sort that is not stable: rows of equal keys come out in reverse order
sort_values_unstable(df) ==
  IF Len(ColIdx(df, S_Acct)) # 1 \/ Len(ColIdx(df, S_AccountTitle)) # 1
  THEN Raised
  ELSE DataFrame(df.cols,
         SortRows(df, Tup([r \in 1..Len(df.rows) |-> df.rows[Len(df.rows) + 1 - r]])))

\* all_merged.sort_values(["Acct", "Account Title"]): a multi-key sort is a
\* stable lexsort; a key label that is not unique raises ValueError
sort_values(df) ==
  IF Len(ColIdx(df, S_Acct)) # 1 \/ Len(ColIdx(df, S_AccountTitle)) # 1
  THEN Raised
  ELSE DataFrame(df.cols, SortRows(df, df.rows))

\* drop_duplicates with keep="first"
drop_duplicates_first(df) ==
  LET keep(i) == \A j \in 1..(i - 1) :
                    KeyOf(df, df.rows[j]) # KeyOf(df, df.rows[i])
      idx == SelectSeq(Tup([i \in 1..Len(df.rows) |-> i]), keep)
  IN DataFrame(df.cols, Tup([k \in 1..Len(idx) |-> df.rows[idx[k]]]))

\* .drop_duplicates(subset=["Acct", "Account Title"], keep="last")
drop_duplicates(df) ==
  LET keep(i) == \A j \in (i + 1)..Len(df.rows) :
                    KeyOf(df, df.rows[j]) # KeyOf(df, df.rows[i])
      idx == SelectSeq(Tup([i \in 1..Len(df.rows) |-> i]), keep)
  IN DataFrame(df.cols, Tup([k \in 1..Len(idx) |-> df.rows[idx[k]]]))

\* cell of tmp = df.copy().replace({None: "", "nan": "", "NaN": ""}), then
\* .astype(str).str.strip().eq("")
CellBlank(v) ==
  LET t == IF IsNaN(v) \/ v = S_nan \/ v = S_NaN THEN Blank ELSE v
  IN Strip(AsStr(t)) = Blank

\* the row mask blank_title & blank_months of _drop_blank_rows
IsBlankRow(df, row) ==
  /\ \A i \in 1..Len(df.cols) : df.cols[i] \in Range(months) => CellBlank(row[i])
  /\ CellBlank(row[ColIdx(df, S_AccountTitle)[1]])

\* _drop_blank_rows returning df[mask] for df[~mask]
_drop_blank_rows_mask(df) ==
  DataFrame(df.cols, SelectSeq(df.rows, LAMBDA row : IsBlankRow(df, row)))

\* _drop_blank_rows(df, months)
_drop_blank_rows(df) ==
  DataFrame(df.cols, SelectSeq(df.rows, LAMBDA row : ~IsBlankRow(df, row)))

(***************************************************************************)
(* Regular expressions of reshape_financial_table                          *)
(***************************************************************************)
\* is_amount(x): re.search(r"^\s*\$?\(?-?[\d,]+(\.\d{1,2})?\)?\s*$", str(x))
\*   SkipOpt: the position behind an optional character ch at p
\*   SkipFrac: the position behind an optional (\.\d{1,2}) at p
SkipOpt(s, p, ch) == IF At(s, p) = ch THEN p + 1 ELSE p

SkipFrac(s, p) ==
  IF At(s, p) = "." /\ (RunEnd(s, p + 1, IsDigit) - (p + 1)) \in {1, 2}
  THEN RunEnd(s, p + 1, IsDigit) ELSE p

AmountShape(s) ==
  LET p4 == SkipOpt(s, SkipOpt(s, SkipOpt(s, RunEnd(s, 1, IsSpace), "$"), "("), "-")
      p5 == RunEnd(s, p4, LAMBDA c : IsDigit(c) \/ c = ",")
      p8 == RunEnd(s, SkipOpt(s, SkipFrac(s, p5), ")"), IsSpace)
  IN p5 > p4 /\ p8 = Len(s) + 1

is_amount(x) == AmountShape(AsStr(x))

\* re.search(r"\b\d{4,7}\b", sample): a whole run of word characters that is
\* made of 4 to 7 digits
HasAcctCode(sample) ==
  \E i \in 1..Len(sample) : \E n \in 4..7 :
    /\ i + n - 1 <= Len(sample)
    /\ \A k \in i..(i + n - 1) : IsDigit(sample[k])
    /\ ~IsAlnum(At(sample, i - 1))
    /\ ~IsAlnum(At(sample, i + n))

\* the common prefix ^\s*\(?\d{3,10}\)? of the two code+title patterns, then
\* the spaces, the dash and the spaces that follow it:
\*   ok: the prefix matches; code: the digits; k: spaces before the dash;
\*   dash: a dash follows them; j: spaces behind the dash; r: index of the rest
CodePrefix(s) ==
  LET p2 == SkipOpt(s, RunEnd(s, 1, IsSpace), "(")
      p3 == RunEnd(s, p2, IsDigit)
      p4 == SkipOpt(s, p3, ")")
      p5 == RunEnd(s, p4, IsSpace)
      dash == At(s, p5) = "-"
      p6 == SkipOpt(s, p5, "-")
      p7 == RunEnd(s, p6, IsSpace)
  IN [ok |-> (p3 - p2) \in 3..10, code |-> SubSeq(s, p2, p3 - 1),
      k |-> p5 - p4, dash |-> dash, j |-> p7 - p6, d |-> p5, r |-> p7]

\* s.str.match(r"^\s*\(?\d{3,10}\)?(?:\s*[-]?\s+|\s+)(?=[A-Za-z]).+")
TitleFollows(s, c) ==
  /\ c.ok
  /\ \/ c.dash /\ c.j >= 1 /\ IsAlpha(At(s, c.r))
     \/ ~c.dash /\ c.k >= 1 /\ IsAlpha(At(s, c.d))

MatchesCodeTitle(s) == TitleFollows(s, CodePrefix(s))

NoMatch == [matched |-> FALSE, code |-> Blank, title |-> Blank]
Match(code, title) == [matched |-> TRUE, code |-> code, title |-> title]

\* ser.str.extract(r"^\s*\(?(?P<_code>\d{3,10})\)?(?:\s*[-]?\s+|\s+)(?P<_title>.+?)\s*$")
\* followed by .fillna("").astype(str).str.strip() on both groups
CodeTitleGroups(s, c) ==
  LET rest == SubSeq(s, c.r, Len(s))      \* behind dash and spaces
      fromDash == SubSeq(s, c.d, Len(s))  \* behind the first spaces
  IN IF ~c.ok THEN NoMatch
     ELSE IF c.dash /\ c.j >= 1 /\ Len(rest) > 0 THEN Match(c.code, Strip(rest))
     ELSE IF c.dash /\ c.j >= 2 THEN Match(c.code, Blank)
     ELSE IF c.k >= 1 /\ Len(fromDash) > 0 THEN Match(c.code, Strip(fromDash))
     ELSE IF c.k >= 2 THEN Match(c.code, Blank)
     ELSE NoMatch

ExtractCodeTitle(s) == CodeTitleGroups(s, CodePrefix(s))

\* ser.str.extract(r"^\s*(?P<_code>\d{3,10})\s*(?:-)?\s*(?P<_title>.+?)\s*$"):
\* the title needs one character, so the digits give one back when nothing follows
ExtractFallback(s) ==
  LET p1 == RunEnd(s, 1, IsSpace)
      p2 == RunEnd(s, p1, IsDigit)
      m == p2 - p1
      n == IF m > 10 THEN 10 ELSE IF p2 = Len(s) + 1 THEN m - 1 ELSE m
      q == p1 + n
      p3 == RunEnd(s, q, IsSpace)
      dash == At(s, p3) = "-"
      p4 == SkipOpt(s, p3, "-")
      p5 == RunEnd(s, p4, IsSpace)
      rest == SubSeq(s, p5, Len(s))
  IN IF m < 3 \/ n < 3 THEN NoMatch
     ELSE IF dash /\ Len(rest) = 0 /\ p5 = p4 THEN Match(SubSeq(s, p1, q - 1), <<"-">>)
     ELSE Match(SubSeq(s, p1, q - 1), Strip(rest))

(***************************************************************************)
(* Amount normalizer.  utils.normalize_amount and                          *)
(* utils._normalize_amount_column are imported by both converters but      *)
(* their bodies are not part of the sources at hand; they are modelled     *)
(* from section 4.5 of the specification.                                  *)
(***************************************************************************)
\* normalize_amount(v): currency symbols and surrounding blanks are stripped, a
\* parenthesised or minus-prefixed value is negative, thousands separators are
\* removed; a value that is not amount-shaped becomes blank
normalize_amount_parens(v) ==
  LET t == Strip(SelectSeq(AsStr(v), LAMBDA c : c # "$"))
      neg == \E i \in 1..Len(t) : t[i] = "("
      num == SelectSeq(t, LAMBDA c : IsDigit(c) \/ c = ".")
  IN IF ~AmountShape(t) THEN Blank
     ELSE IF neg THEN <<"-">> \o num ELSE num

normalize_amount(v) ==
  LET t == Strip(SelectSeq(AsStr(v), LAMBDA c : c # "$"))
      neg == \E i \in 1..Len(t) : t[i] \in {"(", "-"}
      num == SelectSeq(t, LAMBDA c : IsDigit(c) \/ c = ".")
  IN IF ~AmountShape(t) THEN Blank
     ELSE IF neg THEN <<"-">> \o num ELSE num

\* _normalize_amount_column(series)
_normalize_amount_column(series) == Tup([i \in 1..Len(series) |-> normalize_amount(series[i])])

(***************************************************************************)
(* reshape_financial_table (local_converter.py)                            *)
(***************************************************************************)
Min(a, b) == IF a < b THEN a ELSE b
Max(a, b) == IF a > b THEN a ELSE b

\* _get_series_from_df(df, col): the first column labelled col
Series(df, col) == Tup([r \in 1..Len(df.rows) |-> df.rows[r][ColIdx(df, col)[1]]])

\* _looks_like_month_header(h)
_looks_like_month_header(h) ==
  LET hs == AlphaNorm(h)
  IN \E i \in 1..14 :
       Contains(hs, AlphaNorm(months[i])) \/ Contains(AlphaNorm(months[i]), hs)

\* str(df.iloc[r, df.columns.get_loc(c)]): the cell, or, for a label carried by
\* several columns, the repr of the Series of those cells
\* ("label    value" lines, then "Name: r, dtype: object")
CellText(df, r, i) ==
  LET idx == ColIdx(df, df.cols[i])
      line(k) == df.cols[i] \o <<" "," "," "," ">> \o AsStr(df.rows[r][idx[k]]) \o <<"\n">>
  IN IF Len(idx) = 1 THEN AsStr(df.rows[r][i])
     ELSE Flatten(Tup([k \in 1..Len(idx) |-> line(k)]))
          \o <<"N","a","m","e",":"," ">> \o IntStr(r - 1)
          \o <<","," ","d","t","y","p","e",":"," ","o","b","j","e","c","t">>

\* the header built for column i from the first n rows ("" when not month-like)
ColHeader(df, i, n) ==
  LET vals == Tup([r \in 1..n |-> Strip(CellText(df, r, i))])
      tokens == SelectSeq(vals, LAMBDA v :
                   Len(v) > 0 /\ Lower(v) \notin {S_dashes, S_nan, S_none})
      header == JoinSp(tokens)
  IN IF _looks_like_month_header(header) THEN header ELSE Blank

\* best or h or "Unlabeled"
RECURSIVE FirstMonthIn(_, _)
FirstMonthIn(h, k) ==
  IF k > 14 THEN Blank
  ELSE IF Contains(Lower(h), Lower(months[k])) THEN months[k]
  ELSE FirstMonthIn(h, k + 1)

MapHeader(h) ==
  IF FirstMonthIn(h, 1) # Blank THEN FirstMonthIn(h, 1)
  ELSE IF h # Blank THEN h ELSE S_Unlabeled

\* number of amount-shaped cells of the columns labelled c: the key
\* df[c].apply(is_amount).mean() of max() up to the common row count; a label
\* carried by several columns gives a frame, whose columns are not amounts
AmountFill(df, c) ==
  IF Len(ColIdx(df, c)) # 1 THEN 0
  ELSE Cardinality({r \in 1..Len(df.rows) : is_amount(Series(df, c)[r])})

\* max(candidates, key=...): the first candidate with the greatest key
FirstMax(cands, key(_)) ==
  cands[CHOOSE i \in 1..Len(cands) :
          /\ \A j \in 1..Len(cands) : key(cands[j]) <= key(cands[i])
          /\ \A j \in 1..(i - 1) : key(cands[j]) < key(cands[i])]

\* best_src_for: for each month the best source label (Blank: not resolved)
BestSrcFor(df) ==
  Tup([k \in 1..14 |->
     LET cands == SelectSeq(df.cols, LAMBDA c : Contains(SpaceNorm(c), SpaceNorm(months[k])))
     IN IF Len(cands) = 0 THEN Blank
        ELSE FirstMax(cands, LAMBDA c : AmountFill(df, c))])

\* _is_month_col(name)
_is_month_col(name) ==
  \E k \in 1..14 : Contains(AlphaNorm(name), AlphaNorm(months[k]))

\* df[label] = values when the label exists, else df.insert(pos, label, values)
\* (pos counts from 0)
SetOrInsert(df, label, values, pos) ==
  IF HasCol(df, label)
  THEN DataFrame(df.cols,
         Tup([r \in 1..Len(df.rows) |->
            Tup([i \in 1..Len(df.cols) |->
               IF df.cols[i] = label THEN values[r] ELSE df.rows[r][i]])]))
  ELSE DataFrame(SubSeq(df.cols, 1, pos) \o <<label>> \o SubSeq(df.cols, pos + 1, Len(df.cols)),
         Tup([r \in 1..Len(df.rows) |->
            SubSeq(df.rows[r], 1, pos) \o <<values[r]>>
              \o SubSeq(df.rows[r], pos + 1, Len(df.cols))]))

\* df.drop(columns=[c], errors="ignore") for every label of the set
DropCols(df, labels) ==
  LET keep == SelectSeq(Tup([i \in 1..Len(df.cols) |-> i]), LAMBDA i : df.cols[i] \notin labels)
  IN DataFrame(Tup([k \in 1..Len(keep) |-> df.cols[keep[k]]]),
               Tup([r \in 1..Len(df.rows) |-> Tup([k \in 1..Len(keep) |-> df.rows[r][keep[k]]])]))

\* number of non-empty cells, and of those matching a pattern
NonEmptyCount(ser) == Cardinality({r \in 1..Len(ser) : Strip(AsStr(ser[r])) # Blank})
HitCount(ser, P(_)) ==
  Cardinality({r \in 1..Len(ser) : Strip(AsStr(ser[r])) # Blank /\ P(AsStr(ser[r]))})

\* the non-month column with the best code+title match ratio over its non-empty
\* rows (the loop "if ratio > best_ratio" keeps the first of equal ratios);
\* col is Blank when no column has a match
BestSplitCol(df) ==
  LET cand == SelectSeq(df.cols, LAMBDA c :
                 ~_is_month_col(c) /\ NonEmptyCount(Series(df, c)) > 0)
      h(c) == HitCount(Series(df, c), MatchesCodeTitle)
      ne(c) == NonEmptyCount(Series(df, c))
      better(a, b) == h(a) * ne(b) > h(b) * ne(a)
      top == CHOOSE i \in 1..Len(cand) :
               /\ \A j \in 1..Len(cand) : ~better(cand[j], cand[i])
               /\ \A j \in 1..(i - 1) : better(cand[i], cand[j])
  IN IF \A i \in 1..Len(cand) : h(cand[i]) = 0
     THEN [col |-> Blank, hits |-> 0, nonempty |-> 1]
     ELSE [col |-> cand[top], hits |-> h(cand[top]), nonempty |-> ne(cand[top])]

\* acct_col: the first of the three leftmost columns whose 20-row sample holds
\* an account code, else the leftmost column
AcctCol0(df) ==
  LET left_cols == SubSeq(df.cols, 1, Min(3, Len(df.cols)))
      sample(c) == JoinSp(Tup([r \in 1..Min(20, Len(df.rows)) |-> AsStr(Series(df, c)[r])]))
      coded == SelectSeq(left_cols, LAMBDA c : HasAcctCode(sample(c)))
  IN IF Len(coded) > 0 THEN coded[1] ELSE left_cols[1]

\* df["Acct"] = ex["_code"] and df["Account Title"] = ex["_title"], each set in
\* place when the label exists, else inserted (Acct first, the title behind it)
InsertCodeTitle(df, ex) ==
  LET dA == SetOrInsert(df, S_Acct, Tup([r \in 1..Len(df.rows) |-> ex[r].code]), 0)
  IN SetOrInsert(dA, S_AccountTitle, Tup([r \in 1..Len(df.rows) |-> ex[r].title]),
                 ColIdx(dA, S_Acct)[1])

\* the columns that are aliases of Acct or Account Title are dropped
DropAliases(d) ==
  DropCols(d, {c \in Range(d.cols) :
     /\ AlphaNorm(c) \in {AlphaNorm(S_Acct), <<"a","c","c","o","u","n","t">>,
                          AlphaNorm(S_AccountTitle)}
     /\ c \notin {S_Acct, S_AccountTitle}})

\* out_cols and data: out_df = pd.DataFrame(data) over the canonical columns
OutFrame(dfX, acct_col, title_col, best_src_for) ==
  LET nrows == Len(dfX.rows)
      present(src) == src # Blank /\ HasCol(dfX, src)
      text(src) == IF present(src) THEN Tup([r \in 1..nrows |-> AsStr(Series(dfX, src)[r])])
                   ELSE Tup([r \in 1..nrows |-> Blank])
      amount(src) == IF present(src) THEN _normalize_amount_column(Series(dfX, src))
                     ELSE Tup([r \in 1..nrows |-> Blank])
      acctData == text(acct_col)
      titleData == text(title_col)
      monthData == Tup([k \in 1..14 |-> amount(best_src_for[k])])
  IN DataFrame(canonical,
       Tup([r \in 1..nrows |->
          <<acctData[r], titleData[r]>> \o Tup([k \in 1..14 |-> monthData[k][r]])]))

\* the splitter for the best split column b and the chosen account column:
\* first attempt on b (match ratio >= 0.15), second attempt on the account
\* column itself (hit ratio >= 0.30), else the columns as they are
SplitCodeTitle(df, best_src_for, b, acct_col0) ==
  LET ser == Series(df, acct_col0)
      fx == Tup([r \in 1..Len(df.rows) |-> ExtractFallback(AsStr(ser[r]))])
      fhits == Cardinality({r \in 1..Len(df.rows) :
                  Strip(AsStr(ser[r])) # Blank /\ fx[r].matched})
  IN IF b.col # Blank /\ 100 * b.hits >= 15 * b.nonempty
       THEN OutFrame(
              DropAliases(DropCols(
                InsertCodeTitle(df, Tup([r \in 1..Len(df.rows) |->
                                  ExtractCodeTitle(AsStr(Series(df, b.col)[r]))])),
                {b.col})),
              S_Acct, S_AccountTitle, best_src_for)
     ELSE IF 10 * fhits >= 3 * Max(1, NonEmptyCount(ser))
       THEN OutFrame(
              DropCols(InsertCodeTitle(df, fx), {acct_col0} \ {S_Acct, S_AccountTitle}),
              S_Acct, S_AccountTitle, best_src_for)
     ELSE OutFrame(df, acct_col0, IF Len(df.cols) > 1 THEN df.cols[2] ELSE df.cols[1],
                   best_src_for)

\* reshape_financial_table from "Find account and title columns" to
\* out_df = pd.DataFrame(data): the splitter and the output columns
OutData(df, best_src_for) ==
  SplitCodeTitle(df, best_src_for, BestSplitCol(df), AcctCol0(df))

\* "Filter out empty rows": keep the rows with a title when some row has one,
\* then drop the rows whose month values are all empty
FilterRows(out_df) ==
  LET titled == SelectSeq(out_df.rows, LAMBDA row : Strip(row[2]) # Blank)
      kept == IF Len(titled) > 0 THEN titled ELSE out_df.rows
  IN DataFrame(out_df.cols,
               SelectSeq(kept, LAMBDA row : \E k \in 3..16 : Strip(row[k]) # Blank))

ReshapePlan_13(df0) ==
  IF IsEmpty(df0) THEN [kind |-> "raw", df |-> df0, best_src_for |-> <<>>]
  ELSE
    LET header_rows_to_scan == Min(6, Len(df0.rows))
        col_headers == Tup([i \in 1..Len(df0.cols) |-> ColHeader(df0, i, header_rows_to_scan)])
        month_header_count == Cardinality({i \in 1..Len(df0.cols) : col_headers[i] # Blank})
        df1 == DataFrame(Tup([i \in 1..Len(df0.cols) |-> MapHeader(col_headers[i])]),
                         SubSeq(df0.rows, header_rows_to_scan + 1, Len(df0.rows)))
        best_src_for == BestSrcFor(df1)
        resolved_months == Cardinality({k \in 1..14 : best_src_for[k] # Blank})
        ncols == Len(df1.cols)
        fallback_cols == <<S_Acct, S_AccountTitle>> \o SubSeq(months, 1, Min(14, ncols - 2))
    IN IF month_header_count < 6
         THEN [kind |-> "raw", df |-> df0, best_src_for |-> <<>>]
       ELSE IF resolved_months >= 5
         THEN [kind |-> "rows", df |-> df1, best_src_for |-> best_src_for]
       ELSE IF ncols >= 13 /\ Len(fallback_cols) = ncols
         THEN [kind |-> "rows", df |-> DataFrame(fallback_cols, df1.rows),
               best_src_for |-> best_src_for]
       ELSE [kind |-> "mapped", df |-> df1, best_src_for |-> <<>>]

\* reshape_financial_table up to the positional fallback: which way the table
\* goes ("raw": returned as it came; "mapped": returned with the header rows
\* consumed; "rows": on to the splitter) and with which frame
ReshapePlan(df0) ==
  IF IsEmpty(df0) THEN [kind |-> "raw", df |-> df0, best_src_for |-> <<>>]
  ELSE
    LET header_rows_to_scan == Min(6, Len(df0.rows))
        col_headers == Tup([i \in 1..Len(df0.cols) |-> ColHeader(df0, i, header_rows_to_scan)])
        month_header_count == Cardinality({i \in 1..Len(df0.cols) : col_headers[i] # Blank})
        df1 == DataFrame(Tup([i \in 1..Len(df0.cols) |-> MapHeader(col_headers[i])]),
                         SubSeq(df0.rows, header_rows_to_scan + 1, Len(df0.rows)))
        best_src_for == BestSrcFor(df1)
        resolved_months == Cardinality({k \in 1..14 : best_src_for[k] # Blank})
        ncols == Len(df1.cols)
        fallback_cols == <<S_Acct, S_AccountTitle>> \o SubSeq(months, 1, Min(14, ncols - 2))
    IN IF month_header_count < 6
         THEN [kind |-> "raw", df |-> df0, best_src_for |-> <<>>]
       ELSE IF resolved_months >= 5
         THEN [kind |-> "rows", df |-> df1, best_src_for |-> best_src_for]
       ELSE IF ncols >= 12 /\ Len(fallback_cols) = ncols
         THEN [kind |-> "rows", df |-> DataFrame(fallback_cols, df1.rows),
               best_src_for |-> best_src_for]
       ELSE [kind |-> "mapped", df |-> df1, best_src_for |-> <<>>]

\* reshape_financial_table(df)
ReshapeBy(p) ==
  IF p.kind = "rows" THEN FilterRows(OutData(p.df, p.best_src_for)) ELSE p.df

reshape_financial_table(df0) == ReshapeBy(ReshapePlan(df0))


(***************************************************************************)
(* write_tables_from_ocr (mistral_converter.py)                            *)
(***************************************************************************)
\* header_aliases
header_aliases ==
  [n \in {<<"b","e","g">>, <<"b","e","g","b","a","l">>,
          <<"b","e","g","b","a","l","a","n","c","e">>,
          <<"b","e","g","i","n","n","i","n","g">>,
          <<"c","u","r","r">>, <<"c","u","r","r","b","a","l">>,
          <<"c","u","r","r","e","n","t">>,
          <<"j","a","n">>, <<"f","e","b">>, <<"m","a","r">>, <<"a","p","r">>,
          <<"j","u","n">>, <<"j","u","l">>, <<"a","u","g">>, <<"s","e","p">>,
          <<"s","e","p","t">>, <<"o","c","t">>, <<"n","o","v">>, <<"d","e","c">>} |->
     IF n[1] = "b" THEN S_BeginningBalance
     ELSE IF n[1] = "c" THEN S_CurrentBalance
     ELSE IF n = <<"j","a","n">> THEN S_January
     ELSE IF n = <<"f","e","b">> THEN S_February
     ELSE IF n = <<"m","a","r">> THEN S_March
     ELSE IF n = <<"a","p","r">> THEN S_April
     ELSE IF n = <<"j","u","n">> THEN S_June
     ELSE IF n = <<"j","u","l">> THEN S_July
     ELSE IF n = <<"a","u","g">> THEN S_August
     ELSE IF n[1] = "s" THEN S_September
     ELSE IF n = <<"o","c","t">> THEN S_October
     ELSE IF n = <<"n","o","v">> THEN S_November
     ELSE S_December]

\* month_norms
month_norms == {AlphaNorm(months[k]) : k \in 1..14}

\* the unit of the integer scores: score_table's float is ScoreUnit times smaller
\* (row_bonus = min(len(rows), 200) / 200.0)
ScoreUnit == 200

\* the width score_table prefers
PreferredWidth == 15

Abs(x) == IF x < 0 THEN -x ELSE x

\* score_table without the boost for the two balance columns
score_table_noboost(t) ==
  LET cols_norm == Tup([i \in 1..Len(t.columns) |-> AlphaNorm(Strip(t.columns[i]))])
      has_acctish == \E i \in 1..Len(cols_norm) :
                       \/ StartsWith(cols_norm[i], <<"a","c","c","t">>)
                       \/ /\ Contains(cols_norm[i], <<"a","c","c","o","u","n","t">>)
                          /\ Contains(cols_norm[i], <<"t","i","t","l","e">>)
      month_hits == Cardinality({i \in 1..Len(cols_norm) : cols_norm[i] \in month_norms})
  IN (IF has_acctish THEN 2 * ScoreUnit ELSE 0)
     + ((3 * ScoreUnit) \div 2) * month_hits
     + Min(Len(t.rows), 200)
     - Abs(Len(cols_norm) - PreferredWidth) * (ScoreUnit \div 4)

\* score_table(t), in units of 1/200
score_table(t) ==
  LET cols == Tup([i \in 1..Len(t.columns) |-> Strip(t.columns[i])])
      ncols == Len(cols)
      cols_norm == Tup([i \in 1..ncols |-> AlphaNorm(cols[i])])
      has_acctish == \E i \in 1..ncols :
                       \/ StartsWith(cols_norm[i], <<"a","c","c","t">>)
                       \/ /\ Contains(cols_norm[i], <<"a","c","c","o","u","n","t">>)
                          /\ Contains(cols_norm[i], <<"t","i","t","l","e">>)
      month_hits == Cardinality({i \in 1..ncols : cols_norm[i] \in month_norms})
      row_bonus == Min(Len(t.rows), 200)
      width_penalty == Abs(ncols - PreferredWidth) * (ScoreUnit \div 4)
      bc_boost == /\ AlphaNorm(S_BeginningBalance) \in Range(cols_norm)
                  /\ AlphaNorm(S_CurrentBalance) \in Range(cols_norm)
  IN (IF has_acctish THEN 2 * ScoreUnit ELSE 0)
     + (IF bc_boost THEN 2 * ScoreUnit ELSE 0)
     + ((3 * ScoreUnit) \div 2) * month_hits
     + row_bonus
     - width_penalty

\* the loop of max(): the item at i replaces the current maximum at m only
\* when its key is greater
RECURSIVE MaxLoop(_, _, _)
MaxLoop(key, i, m) ==
  IF i > Len(key) THEN m
  ELSE MaxLoop(key, i + 1, IF key[i] > key[m] THEN i ELSE m)

\* candidates[0] taken without scoring
PrimaryIndex_First(candidates) == 1

\* max() with >= for > in its loop: of the candidates with the greatest score
\* the last one is selected
PrimaryIndex_Last(candidates) ==
  LET key == Tup([j \in 1..Len(candidates) |-> score_table(candidates[j])])
  IN CHOOSE i \in 1..Len(key) :
       /\ \A j \in 1..Len(key) : key[j] <= key[i]
       /\ \A j \in (i + 1)..Len(key) : key[j] < key[i]

\* tb = max(candidates, key=score_table): index of the candidate selected
PrimaryIndex(candidates) ==
  MaxLoop(Tup([j \in 1..Len(candidates) |-> score_table(candidates[j])]), 2, 1)

\* the remap of write_tables_from_ocr for one observed label (Blank: not renamed)
RemapOf(c) ==
  LET n == AlphaNorm(c)
      has(w) == Contains(n, w)
  IN IF StartsWith(n, <<"a","c","c","t">>) THEN S_Acct
     ELSE IF has(<<"a","c","c","o","u","n","t">>) /\ has(<<"t","i","t","l","e">>)
       THEN S_AccountTitle
     ELSE IF has(<<"b","e","g","i","n","n","i","n","g">>) /\ has(<<"b","a","l","a","n","c","e">>)
       THEN S_BeginningBalance
     ELSE IF has(<<"c","u","r","r","e","n","t">>) /\ has(<<"b","a","l","a","n","c","e">>)
       THEN S_CurrentBalance
     ELSE IF n \in DOMAIN header_aliases THEN header_aliases[n]
     ELSE FirstCanonIn(n, 1)

\* df = df[canon_cols] after the missing canonical columns were added as ""
ProjectCanonical(df) ==
  LET pick == Flatten(Tup([k \in 1..Len(canonical) |->
                 IF HasCol(df, canonical[k]) THEN ColIdx(df, canonical[k]) ELSE <<0>>]))
      lab == Flatten(Tup([k \in 1..Len(canonical) |->
                 IF HasCol(df, canonical[k])
                 THEN Tup([j \in 1..Len(ColIdx(df, canonical[k])) |-> canonical[k]])
                 ELSE <<canonical[k]>>]))
  IN DataFrame(lab,
       Tup([r \in 1..Len(df.rows) |->
          Tup([j \in 1..Len(pick) |-> IF pick[j] = 0 THEN Blank ELSE df.rows[r][pick[j]]])]))

\* _is_code(v): re.fullmatch(r"\d{3,10}", str(v or "").strip())
_is_code(v) ==
  LET t == Strip(AsStr(v))
  IN Len(t) \in 3..10 /\ \A i \in 1..Len(t) : IsDigit(t[i])

\* what write_tables_from_ocr returns: the files written and the table in them
OcrNothing == [written |-> <<>>, table |-> DataFrame(<<>>, <<>>), raised |-> FALSE]
OcrRaised == [written |-> <<>>, table |-> DataFrame(<<>>, <<>>), raised |-> TRUE]
OcrWritten(df) ==
  [written |-> <<"tables_from_ocr.md", "tables_from_ocr.csv">>, table |-> df,
   raised |-> FALSE]

\* df = pd.DataFrame(rows, columns=cols) of the stripped cells of tb
StrippedFrame(tb) ==
  DataFrame(Tup([i \in 1..Len(tb.columns) |-> Strip(tb.columns[i])]),
            Tup([r \in 1..Len(tb.rows) |->
               Tup([i \in 1..Len(tb.rows[r]) |-> Strip(tb.rows[r][i])])]))

\* df.rename(columns=remap)
Remapped(df) ==
  DataFrame(Tup([i \in 1..Len(df.cols) |->
                   IF RemapOf(df.cols[i]) = Blank THEN df.cols[i] ELSE RemapOf(df.cols[i])]),
            df.rows)

\* text_like_cols
TextLikeCols(df) == SelectSeq(df.cols, LAMBDA c : c \notin Range(months))

\* the split of the first text-like column src into Acct and Account Title
SplitFirstText(df, src) ==
  LET ex == Tup([r \in 1..Len(df.rows) |-> ExtractCodeTitle(AsStr(Series(df, src)[r]))])
  IN DropCols(
       SetOrInsert(SetOrInsert(df, S_Acct, Tup([r \in 1..Len(df.rows) |-> ex[r].code]), 0),
                   S_AccountTitle, Tup([r \in 1..Len(df.rows) |-> ex[r].title]), 1),
       {src})

\* df[c] = df[c].map(normalize_amount) for the month columns
NormalizeMonths(df) ==
  DataFrame(df.cols,
    Tup([r \in 1..Len(df.rows) |->
       Tup([i \in 1..Len(df.cols) |->
          IF df.cols[i] \in Range(months)
          THEN normalize_amount(df.rows[r][i]) ELSE df.rows[r][i]])]))

\* df = df[keep_mask]: rows with a code, a title or an amount
KeepMasked(df) ==
  LET keep_mask(row) ==
        \/ _is_code(row[ColIdx(df, S_Acct)[1]])
        \/ Strip(AsStr(row[ColIdx(df, S_AccountTitle)[1]])) # Blank
        \/ \E i \in 1..Len(df.cols) : df.cols[i] \in Range(months) /\ is_amount(row[i])
  IN DataFrame(df.cols, SelectSeq(df.rows, keep_mask))

\* the last-ditch frame: the raw frame with an empty Acct and the first
\* text-like column as Account Title, projected on the canonical columns
LastDitch(raw, src) ==
  ProjectCanonical(
    SetOrInsert(SetOrInsert(raw, S_Acct, Tup([r \in 1..Len(raw.rows) |-> Blank]), 0),
                S_AccountTitle,
                Tup([r \in 1..Len(raw.rows) |-> Strip(AsStr(Series(raw, src)[r]))]), 1))

\* "if df.empty:" behind the row mask, df5 the masked frame
OcrFallback(raw, text_like_cols, df5) ==
  IF ~IsEmpty(df5) THEN OcrWritten(df5)
  ELSE IF Len(text_like_cols) = 0 THEN OcrNothing
  ELSE IF \/ HasCol(raw, S_Acct) \/ HasCol(raw, S_AccountTitle)
          \/ Len(ColIdx(raw, text_like_cols[1])) # 1
    THEN OcrRaised     \* insert of an existing label / KeyError / no .str
  ELSE IF IsEmpty(LastDitch(raw, text_like_cols[1])) THEN OcrNothing
  ELSE OcrWritten(LastDitch(raw, text_like_cols[1]))

\* the row mask on the frame df4 with the amounts normalized
OcrMask(raw, text_like_cols, df4) ==
  IF Len(ColIdx(df4, S_Acct)) > 1 \/ Len(ColIdx(df4, S_AccountTitle)) > 1
  THEN OcrRaised                                             \* frame mask
  ELSE OcrFallback(raw, text_like_cols, KeepMasked(df4))

\* the normalization of the month columns of the projected frame df3
OcrNormalize(raw, text_like_cols, df3, hasMap) ==
  IF /\ \E i, j \in 1..Len(df3.cols) :
          i < j /\ df3.cols[i] = df3.cols[j] /\ df3.cols[i] \in Range(months)
     /\ ~hasMap
  THEN OcrRaised                                             \* frame has no .map
  ELSE OcrMask(raw, text_like_cols, NormalizeMonths(df3))

\* the split and the projection of the remapped frame df1
OcrSplit(raw, df1, text_like_cols, hasMap) ==
  IF /\ ~HasCol(df1, S_Acct) /\ ~HasCol(df1, S_AccountTitle)
     /\ Len(text_like_cols) > 0
  THEN IF Len(ColIdx(df1, text_like_cols[1])) > 1
       THEN OcrRaised                                        \* frame has no .str
       ELSE OcrNormalize(raw, text_like_cols,
              ProjectCanonical(SplitFirstText(df1, text_like_cols[1])), hasMap)
  ELSE OcrNormalize(raw, text_like_cols, ProjectCanonical(df1), hasMap)

\* "if not cols or not rows: return written", then the remap
OcrFrame(raw, hasMap) ==
  IF Len(raw.cols) = 0 \/ Len(raw.rows) = 0 THEN OcrNothing
  ELSE OcrSplit(raw, Remapped(raw), TextLikeCols(Remapped(raw)), hasMap)

\* write_tables_from_ocr from "cols = ..." on, for the primary table tb;
\* hasMap: pandas has DataFrame.map (2.1 and later), which decides whether
\* df[c].map(...) on a label carried by several columns raises AttributeError
OcrBuild(tb, hasMap) == OcrFrame(StrippedFrame(tb), hasMap)

(***************************************************************************)
(* _extract_md_tables (mistral_converter.py)                               *)
(***************************************************************************)
\* the thresholds of the call _extract_md_tables(page_text, min_columns=2, min_rows=2)
min_columns == 2
min_rows == 2

\* line.lstrip().startswith("|")
StartsWithPipe(line) == At(line, RunEnd(line, 1, IsSpace)) = "|"

\* set(line.strip()) <= {"|", "-", " ", ":"}
IsSeparatorLine(line) == Range(Strip(line)) \subseteq {"|", "-", " ", ":"}

\* str.strip("|")
StripPipes(s) ==
  IF \A i \in 1..Len(s) : s[i] = "|" THEN <<>>
  ELSE SubSeq(s, CHOOSE i \in 1..Len(s) : s[i] # "|" /\ \A j \in 1..(i - 1) : s[j] = "|",
                 CHOOSE i \in 1..Len(s) : s[i] # "|" /\ \A j \in (i + 1)..Len(s) : s[j] = "|")

\* str.split("|")
RECURSIVE SplitPipe(_)
SplitPipe(s) ==
  IF \A i \in 1..Len(s) : s[i] # "|" THEN <<s>>
  ELSE <<SubSeq(s, 1, RunEnd(s, 1, LAMBDA c : c # "|") - 1)>>
       \o SplitPipe(SubSeq(s, RunEnd(s, 1, LAMBDA c : c # "|") + 1, Len(s)))

\* [c.strip() for c in line.strip().strip("|").split("|")]
Cells(line) ==
  LET parts == SplitPipe(StripPipes(Strip(line)))
  IN Tup([i \in 1..Len(parts) |-> Strip(parts[i])])

\* the condition of "if" in the loop: a pipe line with a separator line under it
IsTableStart(lines, i) ==
  /\ StartsWithPipe(lines[i])
  /\ i + 1 <= Len(lines)
  /\ IsSeparatorLine(lines[i + 1])

\* the rows appended in the inner loop over the lines a..b:
\* "if len(row) == len(header): rows.append(row)"
RowsKept(lines, a, b, n) ==
  SelectSeq(Tup([k \in 1..(b - a + 1) |-> Cells(lines[a + k - 1])]),
            LAMBDA row : Len(row) = n)

(***************************************************************************)
(* Candidate tables the detection backends can deliver                      *)
(***************************************************************************)
V_1000 == <<"1","0","0","0">>
V_2000 == <<"2","0","0","0">>
V_3000Rent == <<"3","0","0","0"," ","R","e","n","t">>
V_4000Fees == <<"4","0","0","0"," ","F","e","e","s">>
V_1000Cash == <<"1","0","0","0"," ","C","a","s","h">>
V_Cash == <<"C","a","s","h">>
V_Bank == <<"B","a","n","k">>
V_Title == <<"T","i","t","l","e">>
V_TrialBalance == <<"T","r","i","a","l"," ","B","a","l","a","n","c","e">>
V_Account == <<"A","c","c","o","u","n","t">>
V_Jan == <<"J","a","n">>
V_Feb == <<"F","e","b">>
V_Notes == <<"N","o","t","e","s">>
V_Cleaning == <<"5","0","1","1","3"," ","C","l","e","a","n","i","n","g"," ","-"," ","O","t","h","e","r">>
A_1000 == <<"$","1",",","0","0","0",".","0","0">>
A_200n == <<"$","(","2","0","0",".","0","0",")">>
A_50 == <<"$","5","0",".","0","0">>
A_850 == <<"$","8","5","0",".","0","0">>
A_900 == <<"$","9","0","0",".","0","0">>
A_700 == <<"$","7","0","0",".","0","0">>
A_5 == <<"$","5",".","0","0">>

HdrA == <<S_Acct, S_AccountTitle, S_BeginningBalance, S_January, S_February, S_CurrentBalance>>
HdrB == <<S_Acct, S_AccountTitle, S_BeginningBalance, S_January, S_March, S_CurrentBalance>>
HdrDup == <<S_Acct, S_AccountTitle, S_BeginningBalance, S_January, S_January, S_CurrentBalance>>
Hdr8 == <<S_Acct, V_Title, S_BeginningBalance, S_January, S_February, S_March, S_April,
          S_CurrentBalance>>

RowCash850 == <<V_1000, V_Cash, A_1000, A_200n, A_50, A_850>>
RowCash900 == <<V_1000, V_Cash, A_1000, A_200n, A_50, A_900>>
RowCash700 == <<V_1000, V_Cash, A_1000, A_200n, A_50, A_700>>
RowBank == <<V_2000, V_Bank, Blank, Blank, Blank, Blank>>
RowAmtOnly == <<Blank, Blank, A_5, Blank, Blank, Blank>>
RowEmpty == <<Blank, Blank, Blank, Blank, Blank, Blank>>

\* a row of the well-formed 16-column ledger
Row16(acct, title, amt) == <<acct, title>> \o Tup([k \in 1..14 |-> amt])

Row8Title == <<V_TrialBalance, Blank, Blank, Blank, Blank, Blank, Blank, Blank>>
Row8Cash == <<V_1000Cash, Blank, A_5, Blank, Blank, Blank, Blank, A_50>>
Row8Rent == <<V_3000Rent, Blank, A_1000, A_200n, Blank, Blank, Blank, A_900>>
Row8Fees == <<V_4000Fees, Blank, Blank, Blank, Blank, Blank, Blank, Blank>>

\* grids as camelot delivers them (t.df: every row, the header row included)
G_A1 == <<HdrA, RowCash850, RowAmtOnly>>
G_A2 == <<HdrA, RowCash900, RowEmpty>>
G_B1 == <<HdrB, RowCash700, RowBank>>
G_Blank == <<HdrA, RowEmpty>>
G_Dup == <<HdrDup, RowCash850>>
G_W16 == <<canonical, Row16(V_1000, V_Cash, A_1000), Row16(V_2000, V_Bank, A_200n)>>
G_Split == <<Row8Title, Hdr8, Row8Cash, Row8Cash, Row8Cash, Row8Cash, Row8Rent, Row8Fees>>
G_Empty == <<>>

LocalCorpus == {G_A1, G_A2, G_B1, G_Blank, G_Dup, G_W16, G_Split, G_Empty}

\* two fragments of one ledger, the second with a later Current Balance
G_Clean850 == <<HdrA, <<V_1000, V_Cleaning, A_1000, A_200n, A_50, A_850>>>>
G_Clean900 == <<HdrA, <<V_1000, V_Cleaning, A_1000, A_200n, A_50, A_900>>>>

\* the months abbreviated to three letters, as ledgers print them
Abbr(k) == SubSeq(months[k + 1], 1, 3)

\* a row of n empty cells, and a row of a code, a title and n amounts
RowBlank(n) == Tup([k \in 1..n |-> Blank])
RowAmounts(acct, title, amt, n) == <<acct, title>> \o Tup([k \in 1..n |-> amt])

\* ledgers with abbreviated month labels in their first row: twelve columns
\* with five empty rows under the labels, seventeen columns, eight columns
G_Abbr == <<<<S_Acct, V_Title>> \o Tup([k \in 1..10 |-> Abbr(k)]),
            RowBlank(12), RowBlank(12), RowBlank(12), RowBlank(12), RowBlank(12),
            RowAmounts(V_1000, V_Cash, A_5, 10), RowAmounts(V_2000, V_Bank, A_200n, 10)>>
G_Wide17 == <<<<S_Acct, V_Title>> \o Tup([k \in 1..12 |-> Abbr(k)]) \o <<V_Notes, V_Notes, V_Notes>>,
              RowAmounts(V_1000, V_Cash, A_5, 15)>>
G_Narrow == <<<<S_Acct, V_Title>> \o Tup([k \in 1..6 |-> Abbr(k)]),
              RowAmounts(V_1000, V_Cash, A_5, 6)>>

\* a ledger under a title line, with the account codes in a column of their own
G_Codes == <<Row8Title, Hdr8, RowBlank(8), RowBlank(8), RowBlank(8), RowBlank(8),
             <<V_1000, V_Cash, A_1000, A_200n, Blank, Blank, Blank, A_900>>,
             <<V_2000, V_Bank, A_50, Blank, Blank, Blank, Blank, A_50>>>>

\* the ledger of G_Abbr with code and title in one cell: in the first column,
\* and in the second column next to an empty first one
G_AbbrJoined == <<<<S_Acct, V_Title>> \o Tup([k \in 1..10 |-> Abbr(k)]),
                  RowBlank(12), RowBlank(12), RowBlank(12), RowBlank(12), RowBlank(12),
                  RowAmounts(V_1000Cash, Blank, A_5, 10), RowAmounts(V_3000Rent, Blank, A_200n, 10)>>
G_AbbrTitled == <<<<S_Acct, V_Title>> \o Tup([k \in 1..10 |-> Abbr(k)]),
                  RowBlank(12), RowBlank(12), RowBlank(12), RowBlank(12), RowBlank(12),
                  RowAmounts(Blank, V_1000Cash, A_5, 10), RowAmounts(Blank, V_3000Rent, A_200n, 10)>>

\* the ledger of G_Abbr with a title that starts with a number
V_401K == <<"4","0","1"," ","K"," ","P","l","a","n">>
G_Abbr401 == <<<<S_Acct, V_Title>> \o Tup([k \in 1..10 |-> Abbr(k)]),
               RowBlank(12), RowBlank(12), RowBlank(12), RowBlank(12), RowBlank(12),
               RowAmounts(V_2000, V_401K, A_5, 10)>>

\* ledgers in which one month is printed in two columns: under the same label
\* with the first column garbled, and under two spellings of the label with
\* the first column sparse
V_Garbled == <<"5",".","O","O">>
V_JanuAry == <<"J","a","n","u"," ","a","r","y">>
G_TwoJan == <<Row8Title,
              <<S_Acct, V_Title, S_BeginningBalance, S_January, S_January, S_February, S_March,
                S_CurrentBalance>>,
              RowBlank(8), RowBlank(8), RowBlank(8), RowBlank(8),
              <<V_1000Cash, Blank, A_1000, V_Garbled, A_5, A_50, Blank, A_900>>>>
G_JanuAry == <<Row8Title,
               <<S_Acct, V_Title, S_BeginningBalance, S_January, V_JanuAry, S_February, S_March,
                 S_CurrentBalance>>,
               RowBlank(8), RowBlank(8), RowBlank(8), RowBlank(8),
               <<V_1000Cash, Blank, A_1000, A_5, A_50, A_50, Blank, A_900>>,
               <<V_3000Rent, Blank, A_1000, Blank, A_700, A_50, Blank, A_900>>,
               <<V_4000Fees, Blank, A_1000, Blank, V_Garbled, A_50, Blank, A_900>>>>

\* short tables whose first rows hold three vocabulary tokens, two, one, the
\* two balance labels only, and the balance labels split over four cells
V_Amount == <<"A","m","o","u","n","t">>
V_Beginning == <<"B","e","g","i","n","n","i","n","g">>
V_Current == <<"C","u","r","r","e","n","t">>
V_Balance == <<"B","a","l","a","n","c","e">>
G_H3 == <<<<S_Acct, S_AccountTitle, V_Amount, V_Notes>>, <<V_1000, V_Cash, A_5, Blank>>>>
G_H2 == <<<<S_AccountTitle, V_Amount, V_Notes, V_Notes>>, <<V_Cash, A_5, Blank, Blank>>>>
G_H1 == <<<<S_Acct, V_Title, V_Amount, V_Notes>>, <<V_1000, V_Cash, A_5, Blank>>>>
G_HBal == <<<<V_Title, S_BeginningBalance, S_CurrentBalance, V_Notes>>,
            <<V_Cash, A_5, A_50, Blank>>>>
G_HCut == <<<<V_Beginning, V_Balance, V_Current, V_Balance>>, <<A_5, Blank, A_50, Blank>>>>

\* a ledger with code and title in one cell and a line of totals under it
V_Total == <<"T","o","t","a","l">>
G_Totals == <<Row8Title, Hdr8, RowBlank(8), RowBlank(8), RowBlank(8), RowBlank(8),
              <<V_Cleaning, Blank, A_1000, A_200n, Blank, Blank, Blank, A_900>>,
              <<V_3000Rent, Blank, A_50, Blank, Blank, Blank, Blank, A_50>>,
              <<V_Total, Blank, A_1000, A_200n, Blank, Blank, Blank, A_900>>>>

\* candidate lists of single documents, next to the lists over LocalCorpus
ScenarioLists == {<<G_Clean850, G_Clean900>>, <<G_Abbr, G_Wide17, G_Narrow>>, <<G_Codes>>,
                  <<G_AbbrJoined, G_AbbrTitled, G_Abbr401>>, <<G_Totals>>,
                  <<G_TwoJan, G_JanuAry>>, <<G_H3, G_H2, G_HBal>>, <<G_H1, G_HCut>>}

\* every grid a document of the model can hold
AllGrids == LocalCorpus \cup UNION {Range(l) : l \in ScenarioLists}

\* a table of structured["tables"], as _extract_md_tables builds it from a
\* markdown header line and the row lines under it
MdTable(columns, rows) == [columns |-> columns, rows |-> rows]

O_A1 == MdTable(HdrA, <<RowCash850, RowBank>>)
O_A2 == MdTable(HdrA, <<RowCash900, RowEmpty>>)
O_Split == MdTable(<<V_Account, V_Jan, V_Feb>>,
                   <<<<V_Cleaning, A_5, Blank>>, <<Blank, Blank, Blank>>>>)
O_Dup == MdTable(<<S_Acct, S_AccountTitle, S_January, S_January>>,
                 <<<<V_1000, V_Cash, A_5, A_50>>, <<V_2000, V_Bank, Blank, A_5>>>>)
O_Months == MdTable(<<V_Jan, V_Feb>>, <<<<Blank, Blank>>, <<Blank, Blank>>>>)
O_Notes == MdTable(<<V_Notes, V_Jan>>, <<<<Blank, Blank>>, <<Blank, Blank>>>>)
O_W16 == MdTable(canonical, <<Row16(V_1000, V_Cash, A_1000), Row16(V_2000, V_Bank, A_200n)>>)

OcrCorpus == {O_A1, O_A2, O_Split, O_Dup, O_Months, O_Notes, O_W16}

\* greatest number of candidates of one document
MaxCands == 3

\* greatest number of lines of one page of markdown
MaxLines == 5

\* the lines of the pages: a header, a separator, rows of three, two and four
\* cells, and a line of text
L_Header == <<"|"," ","A"," ","|"," ","B"," ","|"," ","C"," ","|">>
L_Sep == <<"|","-","-","-","|","-","-","-","|","-","-","-","|">>
L_Row3 == <<"|"," ","1"," ","|"," ","2"," ","|"," ","3"," ","|">>
L_Row2 == <<"|"," ","1"," ","|"," ","2"," ","|">>
L_Row4 == <<"|"," ","1"," ","|"," ","2"," ","|"," ","3"," ","|"," ","4"," ","|">>
L_Text == <<"T","o","t","a","l">>
MdLines == {L_Header, L_Sep, L_Row3, L_Row2, L_Row4, L_Text}

\* the lists of at most n elements of S
RECURSIVE ListsUpTo(_, _)
ListsUpTo(S, n) ==
  IF n = 0 THEN {<<>>}
  ELSE LET shorter == ListsUpTo(S, n - 1)
       IN shorter \cup {Append(l, x) : l \in {m \in shorter : Len(m) = n - 1}, x \in S}

\* the permutations of 1..n, as sequences
Perms(n) == {q \in [1..n -> 1..n] : \A i, j \in 1..n : q[i] = q[j] => i = j}

\* the list l reordered by the permutation q
Permute(l, q) == Tup([i \in 1..Len(l) |-> l[q[i]]])

(***************************************************************************)
(* State of one run of a pipeline on the candidates of one document        *)
(***************************************************************************)
VARIABLES
  pipeline,   \* "local": extract_tables_to_markdown; "ocr": write_tables_from_ocr
  input,      \* the candidates, in the order the backends delivered them
  perm,       \* a reordering of the candidates (the same document, delivered in another order)
  frameMap,   \* the installed pandas has DataFrame.map
  pc,         \* position in the function
  dfs,        \* local: the frames of try_camelot_tables
  next_df,    \* local: index of the next frame of the reshape loop
  reshaped,   \* local: the frames kept by the reshape loop
  written,    \* the files written so far, in order (the list the function returns)
  all_merged, \* local: concatenation of the normalized group tables
  deduped,    \* local: best after sort_values / drop_duplicates
  best,       \* local: best after _drop_blank_rows
  small,      \* local: the compact table
  primary,    \* ocr: index of the table max() selects
  primaryP,   \* ocr: index max() selects in the reordered list
  ocr_table,  \* ocr: the table written
  outcome,    \* "running", "nothing", "no_usable_rows", "written" or "raised"
  \* _extract_md_tables
  md_lines,   \* lines = md.splitlines()
  md_i,       \* i, counted from 1
  md_tables,  \* tables
  \* IntelligentCache and the files it is asked about
  now,          \* datetime.now(), in hours
  file_stat,    \* for each source file what _get_file_hash reads: size, mtime, content
  entries,      \* metadata['entries']: key and timestamp, in insertion order
  pkl,          \* the <cache_key>.pkl files of cache_dir: the result pickled in each
  cache_hits,   \* metadata['stats']['cache_hits']
  cache_misses, \* metadata['stats']['cache_misses']
  stores,       \* number of calls of store_result
  lookups,      \* number of calls of get_cached_result
  stored,       \* for each key the result and the time of the last store_result
  last_lookup,  \* the call of get_cached_result that was the last operation, if any
  \* convert_enhanced_batch: the main thread (pc), the workers and the globals
  api_key,         \* MISTRAL_API_KEY is set
  sdk,             \* a Mistral client class can be imported and constructed
  files,           \* the input files in order, each by its kind
  api_files,       \* _categorize_files: the indices of the files that need the API ...
  local_files,     \* ... and of the files processed by the pool
  api_next,        \* position of the sequential loop in api_files
  c_pc,            \* position of each caller: 0 the main thread, f the task of file f
  c_cache,         \* the instance get_cache() returned to each caller (0: not called)
  mistral_client,  \* the global mistral_client (0: None, else the number of the client)
  client_writes,   \* the callers that assigned mistral_client, in order
  mistral_lock,    \* the holder of _mistral_lock (-1: free)
  cache_instance,  \* the global _cache_instance (0: None, else the number of the instance)
  cache_made,      \* the number of IntelligentCache instances constructed
  future,          \* the state of the future of each file
  results,         \* the list process_files_concurrent builds and returns
  \* ErrorRecoveryManager.retry_with_backoff
  max_retries,     \* self.max_retries
  attempt,         \* the loop variable
  calls,           \* the number of calls of func so far
  last_exception,  \* last_exception
  error_history,   \* self.error_history
  retry_result     \* what retry_with_backoff returned or raised

stageVars == <<input, perm, frameMap, dfs, next_df, reshaped, written,
               all_merged, deduped, best, small, primary, primaryP, ocr_table, outcome>>
pipeVars == <<pipeline, input, perm, frameMap, pc, dfs, next_df, reshaped, written,
              all_merged, deduped, best, small, primary, primaryP, ocr_table, outcome>>
mdVars == <<md_lines, md_i, md_tables>>
cacheVars == <<now, file_stat, entries, pkl, cache_hits, cache_misses, stores, lookups,
               stored, last_lookup>>
batchVars == <<api_key, sdk, files, api_files, local_files, api_next, c_pc, c_cache,
               mistral_client, client_writes, mistral_lock, cache_instance, cache_made,
               future, results>>
retryVars == <<max_retries, attempt, calls, last_exception, error_history, retry_result>>
runVars == <<batchVars, retryVars>>
vars == <<pipeVars, mdVars, cacheVars, runVars>>

NoTable == DataFrame(<<>>, <<>>)

\* the per-candidate stages, computed once for every candidate of the corpus
Ingested == Tab([g \in AllGrids |-> IngestTable(g)])
Reshaped == Tab([d \in Range(Ingested) |-> reshape_financial_table(d)])
Built == Tab([a \in OcrCorpus \X BOOLEAN |-> OcrBuild(a[1], a[2])])
Scored == Tab([t \in OcrCorpus |-> score_table(t)])

(***************************************************************************)
(* IntelligentCache (utils.py)                                              *)
(***************************************************************************)
\* IntelligentCache(cache_dir, max_age_hours=24)
max_age_hours == 24

\* the hours between two readings of the clock, and the number of them
TickHours == 24
MaxTicks == 2

\* the number of entries cleanup_old_entries keeps: its argument max_entries,
\* 1000 when left out, here as small as the number of stores
max_entries == 1

\* greatest numbers of calls of store_result and of get_cached_result
MaxStores == 2
MaxLookups == 2

\* the source files, what stat and read can give for one (size, mtime and
\* content taken together) and the processing methods
Files == {"a.pdf", "b.pdf"}
StatsOf == [f \in Files |-> IF f = "a.pdf" THEN {"a1", "a2"} ELSE {"b1"}]
Stats == UNION {StatsOf[f] : f \in Files}
Methods == {"mistral_ocr", "markitdown"}

\* the result of the n-th call of store_result: no two calls store equal results
ResultOf(n) == <<"result", n>>

\* None, as returned by get_cached_result
NoResult == <<"None">>
\* no file <cache_key>.pkl
NoFile == <<"absent">>

\* pickle.dump and pickle.load
Pickle(r) == <<"pkl", r>>
Unpickle(b) == b[2]

\* _get_file_hash: the digest of size, mtime and content; the path is not in it
_get_file_hash(stat, f) == <<"sha256", stat[f]>>

\* get_cache_key with parameters=None: f"{file_hash}_{processing_method}_{param_hash}"
get_cache_key(stat, f, m) == <<_get_file_hash(stat, f), m>>

Keys == {<<<<"sha256", v>>, m>> : v \in Stats, m \in Methods}

\* cache_key in self.metadata['entries']
HasEntry(es, k) == \E i \in 1..Len(es) : es[i].key = k

\* self.metadata['entries'][cache_key]
EntryOf(es, k) == es[CHOOSE i \in 1..Len(es) : es[i].key = k]

\* del self.metadata['entries'][cache_key]
DelEntry(es, k) == SelectSeq(es, LAMBDA e : e.key # k)

PutEntry_keep(es, k, t) ==
  IF HasEntry(es, k) THEN es ELSE Append(es, [key |-> k, timestamp |-> t])

\* self.metadata['entries'][cache_key] = {'timestamp': ...}: a key already in
\* the dict keeps its place, a new one goes last
PutEntry(es, k, t) ==
  IF HasEntry(es, k)
  THEN Tup([i \in 1..Len(es) |-> IF es[i].key = k THEN [key |-> k, timestamp |-> t]
                                                  ELSE es[i]])
  ELSE Append(es, [key |-> k, timestamp |-> t])

\* is_cached: the answer, and the entries and files it leaves behind
is_cached(es, pkls, k, t) ==
  IF ~HasEntry(es, k)
  THEN [cached |-> FALSE, entries |-> es, pkl |-> pkls]
  ELSE IF pkls[k] = NoFile
  THEN [cached |-> FALSE, entries |-> DelEntry(es, k), pkl |-> pkls]
  ELSE IF t - EntryOf(es, k).timestamp > max_age_hours
  THEN [cached |-> FALSE, entries |-> DelEntry(es, k),
        pkl |-> [pkls EXCEPT ![k] = NoFile]]
  ELSE [cached |-> TRUE, entries |-> es, pkl |-> pkls]

\* the place of entry i in sorted(entries.items(), key=timestamp): the sort is
\* stable
TimeRank(es, i) ==
  Cardinality({j \in 1..Len(es) :
                 \/ es[j].timestamp < es[i].timestamp
                 \/ (es[j].timestamp = es[i].timestamp /\ j <= i)})

\* the keys of entries_to_remove = entries_by_time[:-max_entries]
KeysToRemove(es, n) == {es[i].key : i \in {j \in 1..Len(es) : TimeRank(es, j) <= Len(es) - n}}

NeverStored == [result |-> NoResult, at |-> 0, evicted |-> FALSE, changed |-> FALSE]
NoLookup == [called |-> FALSE, key |-> <<>>, ret |-> NoResult, at |-> 0,
             hits0 |-> 0, misses0 |-> 0]

\* the cache on a new cache_dir: _load_metadata finds no metadata file
CacheInit ==
  /\ now = 0
  /\ file_stat = [f \in Files |-> CHOOSE v \in StatsOf[f] : v \in {"a1", "b1"}]
  /\ entries = <<>>
  /\ pkl = [k \in Keys |-> NoFile]
  /\ cache_hits = 0
  /\ cache_misses = 0
  /\ stores = 0
  /\ lookups = 0
  /\ stored = [k \in Keys |-> NeverStored]
  /\ last_lookup = NoLookup

(***************************************************************************)
(* The batch of convert_enhanced_batch and the retry loop: their parts     *)
(***************************************************************************)
\* greatest number of input files of one batch
MaxFiles == 2

\* the kinds of input files: an image, a PDF of more than 5 MB, a PDF of at
\* most 5 MB, another document
FileKinds == {"image", "bigpdf", "pdf", "doc"}

\* the kinds _categorize_files sends to the sequential loop when the key is set
ApiKinds == {"image", "bigpdf"}

\* the kinds get_enhanced_file_strategy gives use_ocr when the key is set
OcrKinds == {"image", "bigpdf", "pdf"}

\* the threads that call into the converters: 0 is the main thread, f the pool
\* task of file f
Callers == 0..MaxFiles

\* greatest max_retries of an ErrorRecoveryManager
MaxRetries == 3

\* the exceptions func can raise
Exceptions == {"IOError", "ValueError"}

\* last_exception = None
NoException == <<"None", 0>>

\* retry_with_backoff is running
Running == [kind |-> "running", call |-> 0, what |-> "None"]

BatchIdle ==
  /\ api_key = FALSE
  /\ sdk = FALSE
  /\ files = <<>>
  /\ api_files = <<>>
  /\ local_files = <<>>
  /\ api_next = 1
  /\ c_pc = [c \in Callers |-> "idle"]
  /\ c_cache = [c \in Callers |-> 0]
  /\ mistral_client = 0
  /\ client_writes = <<>>
  /\ mistral_lock = -1
  /\ cache_instance = 0
  /\ cache_made = 0
  /\ future = [f \in 1..MaxFiles |-> "none"]
  /\ results = <<>>

RetryIdle ==
  /\ max_retries = 0
  /\ attempt = 0
  /\ calls = 0
  /\ last_exception = NoException
  /\ error_history = <<>>
  /\ retry_result = Running

\* the variables of the operations that are not running
PipeIdle ==
  /\ input = <<>>
  /\ perm = <<>>
  /\ frameMap = TRUE
  /\ dfs = <<>>
  /\ next_df = 1
  /\ reshaped = <<>>
  /\ written = <<>>
  /\ all_merged = NoTable
  /\ deduped = NoTable
  /\ best = NoTable
  /\ small = NoTable
  /\ primary = 0
  /\ primaryP = 0
  /\ ocr_table = NoTable
  /\ outcome = "running"

MdIdle ==
  /\ md_lines = <<>>
  /\ md_i = 1
  /\ md_tables = <<>>

InitLocal ==
  /\ MdIdle
  /\ CacheInit
  /\ BatchIdle
  /\ RetryIdle
  /\ pipeline = "local"
  /\ input \in ListsUpTo(LocalCorpus, MaxCands) \cup ScenarioLists
  /\ perm = <<>>
  /\ frameMap = TRUE
  /\ pc = "extract"
  /\ dfs = <<>>
  /\ next_df = 1
  /\ reshaped = <<>>
  /\ written = <<>>
  /\ all_merged = NoTable
  /\ deduped = NoTable
  /\ best = NoTable
  /\ small = NoTable
  /\ primary = 0
  /\ primaryP = 0
  /\ ocr_table = NoTable
  /\ outcome = "running"

InitOcr ==
  /\ MdIdle
  /\ CacheInit
  /\ BatchIdle
  /\ RetryIdle
  /\ pipeline = "ocr"
  /\ input \in ListsUpTo(OcrCorpus, MaxCands)
  /\ perm = <<>>
  /\ frameMap \in BOOLEAN
  /\ pc = "score"
  /\ dfs = <<>>
  /\ next_df = 1
  /\ reshaped = <<>>
  /\ written = <<>>
  /\ all_merged = NoTable
  /\ deduped = NoTable
  /\ best = NoTable
  /\ small = NoTable
  /\ primary = 0
  /\ primaryP = 0
  /\ ocr_table = NoTable
  /\ outcome = "running"

\* tables = [], lines = md.splitlines(), i = 0
InitMd ==
  /\ PipeIdle
  /\ CacheInit
  /\ BatchIdle
  /\ RetryIdle
  /\ pipeline = "md"
  /\ pc = "scan"
  /\ md_lines \in ListsUpTo(MdLines, MaxLines)
  /\ md_i = 1
  /\ md_tables = <<>>

InitCache ==
  /\ PipeIdle
  /\ MdIdle
  /\ CacheInit
  /\ BatchIdle
  /\ RetryIdle
  /\ pipeline = "cache"
  /\ pc = "serve"

\* convert_enhanced_batch finds the input files; nothing was initialized yet
InitBatch ==
  /\ PipeIdle
  /\ MdIdle
  /\ CacheInit
  /\ RetryIdle
  /\ pipeline = "batch"
  /\ pc = "begin"
  /\ api_key \in BOOLEAN
  /\ sdk \in BOOLEAN
  /\ files \in ListsUpTo(FileKinds, MaxFiles) \ {<<>>}
  /\ api_files = <<>>
  /\ local_files = <<>>
  /\ api_next = 1
  /\ c_pc = [c \in Callers |-> "idle"]
  /\ c_cache = [c \in Callers |-> 0]
  /\ mistral_client = 0
  /\ client_writes = <<>>
  /\ mistral_lock = -1
  /\ cache_instance = 0
  /\ cache_made = 0
  /\ future = [f \in 1..MaxFiles |-> "none"]
  /\ results = <<>>

\* retry_with_backoff(func): last_exception = None, attempt = 0
InitRetry ==
  /\ PipeIdle
  /\ MdIdle
  /\ CacheInit
  /\ BatchIdle
  /\ pipeline = "retry"
  /\ pc = "call"
  /\ max_retries \in 0..MaxRetries
  /\ attempt = 0
  /\ calls = 0
  /\ last_exception = NoException
  /\ error_history = <<>>
  /\ retry_result = Running

InitTables == InitLocal \/ InitOcr
Init == InitTables \/ InitMd \/ InitCache \/ InitBatch \/ InitRetry

(***************************************************************************)
(* extract_tables_to_markdown, stage by stage                              *)
(***************************************************************************)
\* dfs += try_camelot_tables(pdf_path)
Extract ==
  /\ pc = "extract"
  /\ dfs' = Tup([i \in 1..Len(input) |-> Ingested[input[i]]])
  /\ pc' = "reshape"
  /\ UNCHANGED <<mdVars, cacheVars, runVars, pipeline, input, perm, frameMap, next_df, reshaped, written,
                 all_merged, deduped, best, small, primary, primaryP, ocr_table, outcome>>

\* the frame r of the reshape loop is kept
KeepReshaped(r) == ~IsEmpty(r) /\ Len(r.cols) >= 6

\* one iteration of "for d in dfs"
ReshapeOne ==
  /\ pc = "reshape"
  /\ next_df <= Len(dfs)
  /\ LET d == dfs[next_df]
         r == Reshaped[d]
     IN reshaped' = IF ~IsEmpty(d) /\ KeepReshaped(r) THEN Append(reshaped, r) ELSE reshaped
  /\ next_df' = next_df + 1
  /\ UNCHANGED <<mdVars, cacheVars, runVars, pipeline, input, perm, frameMap, pc, dfs, written,
                 all_merged, deduped, best, small, primary, primaryP, ocr_table, outcome>>

\* the files of the "all tables" dump: the CSV is skipped when pd.concat raises
AllFiles(frames) ==
  IF IsRaised(Concat(frames)) THEN <<"tables_all.md">>
  ELSE <<"tables_all.md", "tables_all.csv">>

\* after the loop: fall back to the raw frames, return when there is nothing,
\* else write <base>_tables_all.md and .csv
WriteAll ==
  /\ pc = "reshape"
  /\ next_df > Len(dfs)
  /\ \E tables \in {IF Len(reshaped) = 0 /\ Len(dfs) > 0 THEN dfs ELSE reshaped} :
        /\ reshaped' = tables
        /\ IF Len(tables) = 0
           THEN /\ pc' = "done"
                /\ outcome' = "nothing"
                /\ written' = written
           ELSE /\ pc' = "coalesce"
                /\ outcome' = outcome
                /\ written' = written \o AllFiles(tables)
  /\ UNCHANGED <<mdVars, cacheVars, runVars, pipeline, input, perm, frameMap, dfs, next_df,
                 all_merged, deduped, best, small, primary, primaryP, ocr_table>>

\* normalized = [normalize_cols(d) for d in merged_tables];
\* all_merged = pd.concat(normalized, ignore_index=True)
AllMerged(frames) ==
  LET merged_tables == MergedTables(frames)
  IN IF \E k \in 1..Len(merged_tables) : IsRaised(merged_tables[k]) THEN Raised
     ELSE Concat(Tup([k \in 1..Len(merged_tables) |-> normalize_cols(merged_tables[k])]))

\* best = all_merged.sort_values([...]).drop_duplicates(subset=[...], keep="last")
SortDedup(df) ==
  IF IsRaised(sort_values(df)) THEN Raised ELSE drop_duplicates(sort_values(df))

\* group, concatenate, normalize, sort and deduplicate; an exception of pandas
\* leaves the function
Coalesce ==
  /\ pc = "coalesce"
  /\ \E m \in {AllMerged(reshaped)} :
     \E b \in {IF IsRaised(m) THEN Raised ELSE SortDedup(m)} :
        IF IsRaised(b)
        THEN /\ pc' = "done"
             /\ outcome' = "raised"
             /\ all_merged' = IF IsRaised(m) THEN all_merged ELSE m
             /\ deduped' = deduped
        ELSE /\ pc' = "filter"
             /\ outcome' = outcome
             /\ all_merged' = m
             /\ deduped' = b
  /\ UNCHANGED <<mdVars, cacheVars, runVars, pipeline, input, perm, frameMap, dfs, next_df, reshaped, written,
                 best, small, primary, primaryP, ocr_table>>

\* the blank-row filter without "if best.empty: return written"
DropBlank_NoReturn ==
  /\ pc = "filter"
  /\ best' = _drop_blank_rows(deduped)
  /\ pc' = "write"
  /\ UNCHANGED <<mdVars, cacheVars, runVars, pipeline, input, perm, frameMap, dfs, next_df, reshaped, written,
                 all_merged, deduped, small, primary, primaryP, ocr_table, outcome>>

\* the blank-row filter with the emptiness test placed behind the first write
DropBlank_LateReturn ==
  /\ pc = "filter"
  /\ \E b \in {_drop_blank_rows(deduped)} :
        /\ best' = b
        /\ IF IsEmpty(b)
           THEN /\ pc' = "done"
                /\ outcome' = "no_usable_rows"
                /\ written' = written \o <<"tables_full.md", "tables_full.csv">>
           ELSE /\ pc' = "write"
                /\ outcome' = outcome
                /\ written' = written
  /\ UNCHANGED <<mdVars, cacheVars, runVars, pipeline, input, perm, frameMap, dfs, next_df, reshaped,
                 all_merged, deduped, small, primary, primaryP, ocr_table>>

\* best = _drop_blank_rows(best, months); if best.empty: return written
DropBlank ==
  /\ pc = "filter"
  /\ \E b \in {_drop_blank_rows(deduped)} :
        /\ best' = b
        /\ IF IsEmpty(b)
           THEN pc' = "done" /\ outcome' = "no_usable_rows"
           ELSE pc' = "write" /\ outcome' = outcome
  /\ UNCHANGED <<mdVars, cacheVars, runVars, pipeline, input, perm, frameMap, dfs, next_df, reshaped, written,
                 all_merged, deduped, small, primary, primaryP, ocr_table>>

\* small = best.copy(), cut to Acct / Account Title / Current Balance when the
\* table has more than 16 columns
Compact(df) ==
  IF Len(df.cols) > 16
  THEN LET keep == SelectSeq(<<S_Acct, S_AccountTitle, S_CurrentBalance>>,
                             LAMBDA c : HasCol(df, c))
           idx == Flatten(Tup([k \in 1..Len(keep) |-> ColIdx(df, keep[k])]))
       IN IF Len(keep) = 0 THEN df
          ELSE DataFrame(Tup([k \in 1..Len(idx) |-> df.cols[idx[k]]]),
                 Tup([r \in 1..Len(df.rows) |-> Tup([k \in 1..Len(idx) |-> df.rows[r][idx[k]]])]))
  ELSE df

\* write the full, the wide and the compact table (md and csv each)
WriteTables ==
  /\ pc = "write"
  /\ small' = Compact(best)
  /\ written' = written \o <<"tables_full.md", "tables_full.csv", "tables_wide.md",
                             "tables_wide.csv", "tables.md", "tables.csv">>
  /\ pc' = "done"
  /\ outcome' = "written"
  /\ UNCHANGED <<mdVars, cacheVars, runVars, pipeline, input, perm, frameMap, dfs, next_df, reshaped,
                 all_merged, deduped, best, primary, primaryP, ocr_table>>

(***************************************************************************)
(* write_tables_from_ocr, stage by stage                                   *)
(***************************************************************************)
\* candidates = structured.get("tables") or []; tb = max(candidates, key=score_table)
Score ==
  /\ pc = "score"
  /\ IF Len(input) = 0
     THEN /\ pc' = "done"
          /\ outcome' = "nothing"
          /\ UNCHANGED <<perm, primary, primaryP>>
     ELSE /\ pc' = "build"
          /\ outcome' = outcome
          /\ primary' = PrimaryIndex(input)
          /\ \E q \in Perms(Len(input)) :
                /\ perm' = q
                /\ primaryP' = PrimaryIndex(Permute(input, q))
  /\ UNCHANGED <<mdVars, cacheVars, runVars, pipeline, input, frameMap, dfs, next_df, reshaped, written,
                 all_merged, deduped, best, small, ocr_table>>

\* remap, split, project, normalize, filter and write the primary table
Build ==
  /\ pc = "build"
  /\ \E res \in {Built[<<input[primary], frameMap>>]} :
        /\ written' = res.written
        /\ ocr_table' = res.table
        /\ outcome' = IF res.raised THEN "raised"
                      ELSE IF Len(res.written) = 0 THEN "no_usable_rows"
                      ELSE "written"
  /\ pc' = "done"
  /\ UNCHANGED <<mdVars, cacheVars, runVars, pipeline, input, perm, frameMap, dfs, next_df, reshaped,
                 all_merged, deduped, best, small, primary, primaryP>>

(***************************************************************************)
(* _extract_md_tables, one turn of the outer loop at a time                *)
(***************************************************************************)
\* the tables after the turn that finds a header at line i and the first line
\* that is not a row at line e
TablesAfter(tables, lines, i, e) ==
  IF Len(Cells(lines[i])) >= min_columns
     /\ Len(RowsKept(lines, i + 2, e - 1, Len(Cells(lines[i])))) >= min_rows
  THEN Append(tables, MdTable(Cells(lines[i]),
                              RowsKept(lines, i + 2, e - 1, Len(Cells(lines[i])))))
  ELSE tables

MdScan ==
  /\ pipeline = "md"
  /\ pc = "scan"
  /\ md_i <= Len(md_lines)
  /\ IF IsTableStart(md_lines, md_i)
     THEN \E e \in {RunEnd(md_lines, md_i + 2, StartsWithPipe)} :
             /\ md_i' = e
             /\ md_tables' = TablesAfter(md_tables, md_lines, md_i, e)
     ELSE /\ md_i' = md_i + 1
          /\ md_tables' = md_tables
  /\ UNCHANGED <<pipeVars, cacheVars, runVars, md_lines>>

\* return tables
MdReturn ==
  /\ pipeline = "md"
  /\ pc = "scan"
  /\ md_i > Len(md_lines)
  /\ pc' = "done"
  /\ UNCHANGED <<mdVars, cacheVars, runVars, pipeline, input, perm, frameMap, dfs, next_df, reshaped,
                 written, all_merged, deduped, best, small, primary, primaryP, ocr_table,
                 outcome>>

NextMd ==
  \/ MdScan
  \/ MdReturn

(***************************************************************************)
(* The calls on the cache, the clock and the source files                   *)
(***************************************************************************)
\* cache.store_result(cache.get_cache_key(f, m), r, f, info)
StoreResult ==
  /\ pipeline = "cache"
  /\ stores < MaxStores
  /\ \E f \in Files, m \in Methods, r \in {ResultOf(stores + 1)} :
       \E k \in {get_cache_key(file_stat, f, m)} :
          /\ pkl' = [pkl EXCEPT ![k] = Pickle(r)]
          /\ entries' = PutEntry(entries, k, now)
          /\ stored' = [stored EXCEPT ![k] = [result |-> r, at |-> now, evicted |-> FALSE,
                                                changed |-> FALSE]]
  /\ stores' = stores + 1
  /\ last_lookup' = NoLookup
  /\ UNCHANGED <<pipeVars, mdVars, runVars, now, file_stat, cache_hits, cache_misses, lookups>>

GetCachedResult_absent ==
  /\ pipeline = "cache"
  /\ lookups < MaxLookups
  /\ \E f \in Files, m \in Methods :
       \E k \in {get_cache_key(file_stat, f, m)} :
         \E c \in {is_cached(entries, pkl, k, now)} :
            /\ entries' = c.entries
            /\ pkl' = c.pkl
            /\ cache_hits' = IF c.cached THEN cache_hits + 1 ELSE cache_hits
            /\ cache_misses' = IF c.cached \/ HasEntry(entries, k) THEN cache_misses
                               ELSE cache_misses + 1
            /\ last_lookup' = [called |-> TRUE, key |-> k,
                               ret |-> IF c.cached THEN Unpickle(pkl[k]) ELSE NoResult,
                               at |-> now, hits0 |-> cache_hits, misses0 |-> cache_misses]
  /\ lookups' = lookups + 1
  /\ UNCHANGED <<pipeVars, mdVars, runVars, now, file_stat, stores, stored>>

\* cache.get_cached_result(cache.get_cache_key(f, m))
GetCachedResult ==
  /\ pipeline = "cache"
  /\ lookups < MaxLookups
  /\ \E f \in Files, m \in Methods :
       \E k \in {get_cache_key(file_stat, f, m)} :
         \E c \in {is_cached(entries, pkl, k, now)} :
            /\ entries' = c.entries
            /\ pkl' = c.pkl
            /\ cache_hits' = IF c.cached THEN cache_hits + 1 ELSE cache_hits
            /\ cache_misses' = IF c.cached THEN cache_misses ELSE cache_misses + 1
            /\ last_lookup' = [called |-> TRUE, key |-> k,
                               ret |-> IF c.cached THEN Unpickle(pkl[k]) ELSE NoResult,
                               at |-> now, hits0 |-> cache_hits, misses0 |-> cache_misses]
  /\ lookups' = lookups + 1
  /\ UNCHANGED <<pipeVars, mdVars, runVars, now, file_stat, stores, stored>>

\* cache.cleanup_old_entries(max_entries)
CleanupOldEntries ==
  /\ pipeline = "cache"
  /\ last_lookup' = NoLookup
  /\ IF Len(entries) <= max_entries
     THEN UNCHANGED <<entries, pkl, stored>>
     ELSE \E gone \in {KeysToRemove(entries, max_entries)} :
             /\ entries' = SelectSeq(entries, LAMBDA e : e.key \notin gone)
             /\ pkl' = [k \in Keys |-> IF k \in gone THEN NoFile ELSE pkl[k]]
             /\ stored' = [k \in Keys |-> IF k \in gone
                                          THEN [stored[k] EXCEPT !.evicted = TRUE]
                                          ELSE stored[k]]
  /\ UNCHANGED <<pipeVars, mdVars, runVars, now, file_stat, cache_hits, cache_misses, stores, lookups>>

\* time passes
Tick ==
  /\ pipeline = "cache"
  /\ now < MaxTicks * TickHours
  /\ now' = now + TickHours
  /\ last_lookup' = NoLookup
  /\ UNCHANGED <<pipeVars, mdVars, runVars, file_stat, entries, pkl, cache_hits, cache_misses,
                 stores, lookups, stored>>

\* a source file is written: its size, mtime or content change
Touch ==
  /\ pipeline = "cache"
  /\ \E f \in Files : \E v \in StatsOf[f] :
        /\ v # file_stat[f]
        /\ file_stat' = [file_stat EXCEPT ![f] = v]
        /\ stored' = [k \in Keys |-> IF k[1] = _get_file_hash(file_stat, f)
                                     THEN [stored[k] EXCEPT !.changed = TRUE]
                                     ELSE stored[k]]
  /\ last_lookup' = NoLookup
  /\ UNCHANGED <<pipeVars, mdVars, runVars, now, entries, pkl, cache_hits, cache_misses,
                 stores, lookups>>

(***************************************************************************)
(* convert_enhanced_batch (main.py): get_cache(), then                     *)
(* ConcurrentProcessor.process_files_concurrent (utils.py) with the        *)
(* function of create_file_processor_function; the workers call            *)
(* mistral_ocr_file_enhanced, which calls _ensure_mistral_client            *)
(* (mistral_converter.py) and get_cache (utils.py)                         *)
(***************************************************************************)
\* the file a caller is processing: the main thread processes the API files
FileOf(c) == IF c = 0 THEN api_files[api_next] ELSE c

\* "if strategy.use_ocr:" and "if MISTRAL_API_KEY:" of process_single_file
UsesOcr(c) == api_key /\ files[FileOf(c)] \in OcrKinds

\* the files a list of results is about
ResultFiles(rs) == {rs[i].file : i \in 1..Len(rs)}

\* convert_enhanced_batch with the workers started before any call of get_cache()
BatchStart_nocache ==
  /\ pipeline = "batch"
  /\ pc = "begin"
  /\ pc' = "categorize"
  /\ UNCHANGED <<pipeline, stageVars, mdVars, cacheVars, batchVars, retryVars>>

\* convert_enhanced_batch up to "cache = get_cache()"
BatchStart ==
  /\ pipeline = "batch"
  /\ pc = "begin"
  /\ pc' = "get_cache"
  /\ c_pc' = [c_pc EXCEPT ![0] = "cache"]
  /\ UNCHANGED <<pipeline, stageVars, mdVars, cacheVars, retryVars, api_key, sdk, files,
                 api_files, local_files, api_next, c_cache, mistral_client, client_writes,
                 mistral_lock, cache_instance, cache_made, future, results>>

\* get_cache(): "if _cache_instance is None:"
GetCacheCheck(c) ==
  /\ pipeline = "batch"
  /\ c_pc[c] = "cache"
  /\ c_pc' = [c_pc EXCEPT ![c] = IF cache_instance = 0 THEN "new" ELSE "ret"]
  /\ UNCHANGED <<pipeline, pc, stageVars, mdVars, cacheVars, retryVars, api_key, sdk, files,
                 api_files, local_files, api_next, c_cache, mistral_client, client_writes,
                 mistral_lock, cache_instance, cache_made, future, results>>

\* get_cache(): "_cache_instance = IntelligentCache(CACHE_DIR)"
GetCacheNew(c) ==
  /\ pipeline = "batch"
  /\ c_pc[c] = "new"
  /\ cache_made' = cache_made + 1
  /\ cache_instance' = cache_made + 1
  /\ c_pc' = [c_pc EXCEPT ![c] = "ret"]
  /\ UNCHANGED <<pipeline, pc, stageVars, mdVars, cacheVars, retryVars, api_key, sdk, files,
                 api_files, local_files, api_next, c_cache, mistral_client, client_writes,
                 mistral_lock, future, results>>

\* get_cache(): "return _cache_instance"; the main thread goes on to
\* process_files_concurrent, a caller inside mistral_ocr_file_enhanced to the
\* end of its processing function
GetCacheReturn(c) ==
  /\ pipeline = "batch"
  /\ c_pc[c] = "ret"
  /\ c_cache' = [c_cache EXCEPT ![c] = cache_instance]
  /\ IF c = 0 /\ pc = "get_cache"
     THEN /\ c_pc' = [c_pc EXCEPT ![c] = "idle"]
          /\ pc' = "categorize"
     ELSE /\ c_pc' = [c_pc EXCEPT ![c] = "finish"]
          /\ pc' = pc
  /\ UNCHANGED <<pipeline, stageVars, mdVars, cacheVars, retryVars, api_key, sdk, files,
                 api_files, local_files, api_next, mistral_client, client_writes,
                 mistral_lock, cache_instance, cache_made, future, results>>

\* api_files, local_files = self._categorize_files(files)
Categorize ==
  /\ pipeline = "batch"
  /\ pc = "categorize"
  /\ api_files' = SelectSeq(Tup([f \in 1..Len(files) |-> f]),
                            LAMBDA f : api_key /\ files[f] \in ApiKinds)
  /\ local_files' = SelectSeq(Tup([f \in 1..Len(files) |-> f]),
                              LAMBDA f : ~(api_key /\ files[f] \in ApiKinds))
  /\ pc' = "pool"
  /\ UNCHANGED <<pipeline, stageVars, mdVars, cacheVars, retryVars, api_key, sdk, files,
                 api_next, c_pc, c_cache, mistral_client, client_writes, mistral_lock,
                 cache_instance, cache_made, future, results>>

\* _process_local_files_concurrent: executor.submit for every local file
Submit ==
  /\ pipeline = "batch"
  /\ pc = "pool"
  /\ IF Len(local_files) = 0
     THEN /\ pc' = "api"
          /\ UNCHANGED <<future, c_pc>>
     ELSE /\ pc' = "collect"
          /\ future' = [f \in 1..MaxFiles |->
                          IF f \in Range(local_files) THEN "pending" ELSE future[f]]
          /\ c_pc' = [c \in Callers |->
                        IF c \in Range(local_files) THEN "start" ELSE c_pc[c]]
  /\ UNCHANGED <<pipeline, stageVars, mdVars, cacheVars, retryVars, api_key, sdk, files,
                 api_files, local_files, api_next, c_cache, mistral_client, client_writes,
                 mistral_lock, cache_instance, cache_made, results>>

\* _safe_process_file calls processing_func(file_path)
ProcessStart(c) ==
  /\ pipeline = "batch"
  /\ c_pc[c] = "start"
  /\ c_pc' = [c_pc EXCEPT ![c] = IF UsesOcr(c) THEN "ensure" ELSE "finish"]
  /\ UNCHANGED <<pipeline, pc, stageVars, mdVars, cacheVars, retryVars, api_key, sdk, files,
                 api_files, local_files, api_next, c_cache, mistral_client, client_writes,
                 mistral_lock, cache_instance, cache_made, future, results>>

\* _ensure_mistral_client: the quick check without the lock
EnsureQuick(c) ==
  /\ pipeline = "batch"
  /\ c_pc[c] = "ensure"
  /\ c_pc' = [c_pc EXCEPT ![c] = IF mistral_client # 0 THEN "cache" ELSE "lock"]
  /\ UNCHANGED <<pipeline, pc, stageVars, mdVars, cacheVars, retryVars, api_key, sdk, files,
                 api_files, local_files, api_next, c_cache, mistral_client, client_writes,
                 mistral_lock, cache_instance, cache_made, future, results>>

\* _ensure_mistral_client: "with _mistral_lock:"
EnsureAcquire(c) ==
  /\ pipeline = "batch"
  /\ c_pc[c] = "lock"
  /\ mistral_lock = -1
  /\ mistral_lock' = c
  /\ c_pc' = [c_pc EXCEPT ![c] = "init"]
  /\ UNCHANGED <<pipeline, pc, stageVars, mdVars, cacheVars, retryVars, api_key, sdk, files,
                 api_files, local_files, api_next, c_cache, mistral_client, client_writes,
                 cache_instance, cache_made, future, results>>

\* the body under the lock without its check of mistral_client
EnsureLocked_unchecked(c) ==
  /\ pipeline = "batch"
  /\ c_pc[c] = "init"
  /\ IF ~api_key \/ ~sdk
     THEN /\ c_pc' = [c_pc EXCEPT ![c] = "finish"]
          /\ UNCHANGED <<mistral_client, client_writes>>
     ELSE /\ mistral_client' = Len(client_writes) + 1
          /\ client_writes' = Append(client_writes, c)
          /\ c_pc' = [c_pc EXCEPT ![c] = "cache"]
  /\ mistral_lock' = -1
  /\ UNCHANGED <<pipeline, pc, stageVars, mdVars, cacheVars, retryVars, api_key, sdk, files,
                 api_files, local_files, api_next, c_cache, cache_instance, cache_made,
                 future, results>>

\* _ensure_mistral_client: the body under the lock, to the return that
\* releases it: the second check, the key, the construction of the client.
\* On False mistral_ocr_file_enhanced returns None, on True it goes on to
\* get_cache()
EnsureLocked(c) ==
  /\ pipeline = "batch"
  /\ c_pc[c] = "init"
  /\ IF mistral_client # 0
     THEN /\ c_pc' = [c_pc EXCEPT ![c] = "cache"]
          /\ UNCHANGED <<mistral_client, client_writes>>
     ELSE IF ~api_key \/ ~sdk
     THEN /\ c_pc' = [c_pc EXCEPT ![c] = "finish"]
          /\ UNCHANGED <<mistral_client, client_writes>>
     ELSE /\ mistral_client' = Len(client_writes) + 1
          /\ client_writes' = Append(client_writes, c)
          /\ c_pc' = [c_pc EXCEPT ![c] = "cache"]
  /\ mistral_lock' = -1
  /\ UNCHANGED <<pipeline, pc, stageVars, mdVars, cacheVars, retryVars, api_key, sdk, files,
                 api_files, local_files, api_next, c_cache, cache_instance, cache_made,
                 future, results>>

\* _safe_process_file returns: the result of processing_func, or the failed
\* result it makes of an exception.  In the pool this completes the future;
\* in the sequential loop the result is appended at once
Finish(c) ==
  /\ pipeline = "batch"
  /\ c_pc[c] = "finish"
  /\ \E ok \in BOOLEAN :
       IF c = 0
       THEN /\ results' = Append(results, [file |-> FileOf(0), success |-> ok])
            /\ api_next' = api_next + 1
            /\ c_pc' = [c_pc EXCEPT ![c] = "idle"]
            /\ future' = future
       ELSE /\ future' = [future EXCEPT ![c] = IF ok THEN "ok" ELSE "failed"]
            /\ c_pc' = [c_pc EXCEPT ![c] = "done"]
            /\ UNCHANGED <<results, api_next>>
  /\ UNCHANGED <<pipeline, pc, stageVars, mdVars, cacheVars, retryVars, api_key, sdk, files,
                 api_files, local_files, c_cache, mistral_client, client_writes,
                 mistral_lock, cache_instance, cache_made>>

\* the loop over as_completed keeping the successful results only
Collect_successful ==
  /\ pipeline = "batch"
  /\ pc = "collect"
  /\ \E f \in Range(local_files) :
       /\ future[f] \in {"ok", "failed"}
       /\ results' = IF future[f] = "ok"
                     THEN Append(results, [file |-> f, success |-> TRUE]) ELSE results
       /\ future' = [future EXCEPT ![f] = "taken"]
  /\ UNCHANGED <<pipeline, pc, stageVars, mdVars, cacheVars, retryVars, api_key, sdk, files,
                 api_files, local_files, api_next, c_pc, c_cache, mistral_client,
                 client_writes, mistral_lock, cache_instance, cache_made>>

\* one turn of "for future in as_completed(future_to_file)": a completed
\* future is yielded once and its result appended
Collect ==
  /\ pipeline = "batch"
  /\ pc = "collect"
  /\ \E f \in Range(local_files) :
       /\ future[f] \in {"ok", "failed"}
       /\ results' = Append(results, [file |-> f, success |-> future[f] = "ok"])
       /\ future' = [future EXCEPT ![f] = "taken"]
  /\ UNCHANGED <<pipeline, pc, stageVars, mdVars, cacheVars, retryVars, api_key, sdk, files,
                 api_files, local_files, api_next, c_pc, c_cache, mistral_client,
                 client_writes, mistral_lock, cache_instance, cache_made>>

\* as_completed is exhausted, the executor shuts down, results.extend(local_results)
PoolDone ==
  /\ pipeline = "batch"
  /\ pc = "collect"
  /\ \A f \in Range(local_files) : future[f] = "taken"
  /\ pc' = "api"
  /\ UNCHANGED <<pipeline, stageVars, mdVars, cacheVars, batchVars, retryVars>>

\* _process_api_files_sequential: the next file, processed by the main thread
ApiNext ==
  /\ pipeline = "batch"
  /\ pc = "api"
  /\ c_pc[0] = "idle"
  /\ api_next <= Len(api_files)
  /\ c_pc' = [c_pc EXCEPT ![0] = "start"]
  /\ UNCHANGED <<pipeline, pc, stageVars, mdVars, cacheVars, retryVars, api_key, sdk, files,
                 api_files, local_files, api_next, c_cache, mistral_client, client_writes,
                 mistral_lock, cache_instance, cache_made, future, results>>

\* return results
BatchReturn ==
  /\ pipeline = "batch"
  /\ pc = "api"
  /\ c_pc[0] = "idle"
  /\ api_next > Len(api_files)
  /\ pc' = "return"
  /\ UNCHANGED <<pipeline, stageVars, mdVars, cacheVars, batchVars, retryVars>>

NextBatch ==
  \/ BatchStart
  \/ Categorize
  \/ Submit
  \/ Collect
  \/ PoolDone
  \/ ApiNext
  \/ BatchReturn
  \/ \E c \in Callers :
       \/ GetCacheCheck(c)
       \/ GetCacheNew(c)
       \/ GetCacheReturn(c)
       \/ ProcessStart(c)
       \/ EnsureQuick(c)
       \/ EnsureAcquire(c)
       \/ EnsureLocked(c)
       \/ Finish(c)

(***************************************************************************)
(* ErrorRecoveryManager.retry_with_backoff (utils.py)                      *)
(***************************************************************************)
\* one turn of the loop that sleeps after the last attempt too
RetryCall_extra ==
  /\ pipeline = "retry"
  /\ pc = "call"
  /\ calls' = calls + 1
  /\ \/ /\ retry_result' = [kind |-> "returned", call |-> calls + 1, what |-> "value"]
        /\ pc' = "done"
        /\ UNCHANGED <<last_exception, error_history>>
     \/ \E e \in Exceptions :
          /\ last_exception' = <<e, calls + 1>>
          /\ error_history' = Append(error_history, [attempt |-> attempt + 1, error |-> e])
          /\ pc' = IF attempt < max_retries + 1 THEN "sleep" ELSE "raise"
          /\ UNCHANGED retry_result
  /\ UNCHANGED <<pipeline, stageVars, mdVars, cacheVars, batchVars, max_retries, attempt>>

\* one turn of "for attempt in range(self.max_retries + 1)" up to the sleep:
\* func returns a value, which is returned, or raises an exception, which is
\* recorded
RetryCall ==
  /\ pipeline = "retry"
  /\ pc = "call"
  /\ calls' = calls + 1
  /\ \/ /\ retry_result' = [kind |-> "returned", call |-> calls + 1, what |-> "value"]
        /\ pc' = "done"
        /\ UNCHANGED <<last_exception, error_history>>
     \/ \E e \in Exceptions :
          /\ last_exception' = <<e, calls + 1>>
          /\ error_history' = Append(error_history, [attempt |-> attempt + 1, error |-> e])
          /\ pc' = IF attempt < max_retries THEN "sleep" ELSE "raise"
          /\ UNCHANGED retry_result
  /\ UNCHANGED <<pipeline, stageVars, mdVars, cacheVars, batchVars, max_retries, attempt>>

\* time.sleep(delay) returns and the loop takes its next turn
RetrySleep ==
  /\ pipeline = "retry"
  /\ pc = "sleep"
  /\ attempt' = attempt + 1
  /\ pc' = "call"
  /\ UNCHANGED <<pipeline, stageVars, mdVars, cacheVars, batchVars, max_retries, calls,
                 last_exception, error_history, retry_result>>

\* raise last_exception
RetryRaise ==
  /\ pipeline = "retry"
  /\ pc = "raise"
  /\ retry_result' = [kind |-> "raised", call |-> last_exception[2],
                      what |-> last_exception[1]]
  /\ pc' = "done"
  /\ UNCHANGED <<pipeline, stageVars, mdVars, cacheVars, batchVars, max_retries, attempt,
                 calls, last_exception, error_history>>

NextRetry ==
  \/ RetryCall
  \/ RetrySleep
  \/ RetryRaise

NextCache ==
  \/ StoreResult
  \/ GetCachedResult
  \/ CleanupOldEntries
  \/ Tick
  \/ Touch

NextLocal ==
  \/ Extract
  \/ ReshapeOne
  \/ WriteAll
  \/ Coalesce
  \/ DropBlank
  \/ WriteTables

NextOcr ==
  \/ Score
  \/ Build

NextTables == NextLocal \/ NextOcr
Next == NextTables \/ NextMd \/ NextCache \/ NextBatch \/ NextRetry

SpecLocal == InitLocal /\ [][NextLocal]_vars
SpecOcr == InitOcr /\ [][NextOcr]_vars
SpecTables == InitTables /\ [][NextTables]_vars
SpecMd == InitMd /\ [][NextMd]_vars
SpecCache == InitCache /\ [][NextCache]_vars
SpecBatch == InitBatch /\ [][NextBatch]_vars
\* time.sleep returns and func returns or raises: no step waits for ever
SpecRetry == InitRetry /\ [][NextRetry]_vars /\ WF_vars(NextRetry)
Spec == Init /\ [][Next]_vars

(***************************************************************************)
(* Properties                                                              *)
(***************************************************************************)
\* the coalescer has built its deduplicated table
Coalesced ==
  /\ pipeline = "local"
  /\ \/ pc \in {"filter", "write"}
     \/ pc = "done" /\ outcome \in {"no_usable_rows", "written"}

\* the blank-row filter has run on the deduplicated table
Filtered ==
  /\ pipeline = "local"
  /\ \/ pc = "write"
     \/ pc = "done" /\ outcome \in {"no_usable_rows", "written"}

\* the rows of the frames given to the coalescer, each projected onto the
\* canonical columns on its own, in input order, with key and candidate index
CandRows(frames) ==
  Flatten(Tup([i \in 1..Len(frames) |->
     LET nf == normalize_cols(frames[i])
     IN Tup([r \in 1..Len(nf.rows) |->
           [key |-> KeyOf(nf, nf.rows[r]), row |-> nf.rows[r], cand |-> i]])]))

\* index of the last row of rs carrying key k
LastWithKey(rs, k) ==
  CHOOSE n \in 1..Len(rs) : rs[n].key = k /\ \A m \in (n + 1)..Len(rs) : rs[m].key # k

\* a cell that is empty, whitespace or missing
BlankCell(v) == IsNaN(v) \/ Strip(v) = Blank

\* the title and every amount of a row of a canonical frame are blank
FullyBlank(cols, row) ==
  \A i \in 1..Len(cols) : cols[i] \in (Range(months) \cup {S_AccountTitle}) => BlankCell(row[i])

\* C1: in extract_tables_to_markdown, of the rows of different candidates that
\* carry the same (Acct, Account Title) pair, the row kept in the coalesced
\* table is the one of the candidate that comes last in input order, also
\* when the candidates belong to different header-signature groups
C1_LaterCandidateWins ==
  Coalesced =>
    LET rs == CandRows(reshaped)
    IN \A r \in 1..Len(deduped.rows) :
         LET k == KeyOf(deduped, deduped.rows[r])
         IN /\ \E n \in 1..Len(rs) : rs[n].key = k
            /\ rs[LastWithKey(rs, k)].row = deduped.rows[r]

\* a candidate of try_camelot_tables on the canonical columns, before any row
\* filter: the splitter's output for a reshaped table, the frame itself otherwise
Unfiltered(d) ==
  LET p == ReshapePlan(d)
  IN IF p.kind = "rows" THEN OutData(p.df, p.best_src_for) ELSE p.df

\* C2: a candidate row with a non-blank Account Title or at least one
\* parseable amount, that is the last row carrying its (Acct, Account Title)
\* key, is in the final output of extract_tables_to_markdown
C2_TitledOrAmountRowKept ==
  (pipeline = "local" /\ pc = "done" /\ outcome \in {"no_usable_rows", "written"}) =>
    LET cands == SelectSeq(dfs, LAMBDA d : ~IsEmpty(d))
        rs == CandRows(Tup([i \in 1..Len(cands) |-> Unfiltered(cands[i])]))
    IN \A n \in 1..Len(rs) :
         ( /\ n = LastWithKey(rs, rs[n].key)
           /\ \/ ~BlankCell(rs[n].row[2])
              \/ \E k \in 3..Len(rs[n].row) : is_amount(rs[n].row[k]) )
         => rs[n].row \in Range(best.rows)

\* C3: every row of every table written (the coalesced table of
\* extract_tables_to_markdown, the table of write_tables_from_ocr) has exactly
\* the 16 canonical columns, in canonical order
C3_SixteenCanonicalColumns ==
  /\ (pipeline = "local" /\ pc = "done" /\ outcome = "written") =>
        /\ best.cols = canonical
        /\ \A r \in 1..Len(best.rows) : Len(best.rows[r]) = 16
  /\ (pipeline = "ocr" /\ pc = "done" /\ outcome = "written") =>
        /\ ocr_table.cols = canonical
        /\ \A r \in 1..Len(ocr_table.rows) : Len(ocr_table.rows[r]) = 16

\* a grid with the 16 canonical labels as its header row and at least one
\* data row of 16 cells
WellFormed(g) ==
  /\ Len(g) >= 2
  /\ g[1] = canonical
  /\ \A r \in 1..Len(g) : Len(g[r]) = 16

\* a data row of a well-formed ledger with its amounts normalized
NormRow(row) == <<row[1], row[2]>> \o Tup([k \in 1..14 |-> normalize_amount(row[k + 2])])

\* C4: when the candidates are a well-formed 16-column ledger, the table
\* written has exactly the data rows of that candidate, none lost and none
\* added, with the amounts normalized
C4_WellFormedLedgerReturned ==
  (pipeline = "local" /\ pc = "done" /\ Len(input) > 0
     /\ \A i \in 1..Len(input) : WellFormed(input[i]) /\ input[i] = input[1]) =>
    /\ outcome = "written"
    /\ Range(best.rows) = {NormRow(input[1][r]) : r \in 2..Len(input[1])}
    /\ Len(best.rows) = Len(input[1]) - 1

CoalescedFiles ==
  {"tables_full.md", "tables_full.csv", "tables_wide.md", "tables_wide.csv",
   "tables.md", "tables.csv"}

\* C5: when no row is left after deduplication and blank-row filtering the
\* pipeline ends with "no usable rows" and writes no table: the full, wide
\* and compact tables (the OCR table) are written only with at least one row
C5_NoEmptyTable ==
  /\ (Filtered /\ pc = "done") => (outcome = "no_usable_rows" <=> Len(best.rows) = 0)
  /\ (pipeline = "local" /\ Range(written) \cap CoalescedFiles # {}) =>
        /\ Len(best.rows) >= 1
        /\ Filtered
  /\ (pipeline = "ocr" /\ written # <<>>) => Len(ocr_table.rows) >= 1

\* rows were filtered down to none and "no usable rows" was signalled
C5_Witness ==
  /\ Filtered /\ pc = "done" /\ outcome = "no_usable_rows"
  /\ Len(deduped.rows) > 0
  /\ Len(best.rows) = 0

TwoAlike ==
  /\ Coalesced /\ pc = "done"
  /\ Len(reshaped) = 2
  /\ _norm_cols(reshaped[1].cols) = _norm_cols(reshaped[2].cols)

C8_NoFullyBlankRow ==
  Filtered => \A r \in 1..Len(best.rows) : ~FullyBlank(best.cols, best.rows[r])

\* a fully blank row was removed from a table that is written
C8_Witness ==
  /\ Filtered /\ pc = "done" /\ outcome = "written"
  /\ \E r \in 1..Len(deduped.rows) : FullyBlank(deduped.cols, deduped.rows[r])

\* the primary table has been selected, in the given and in the reordered list
Selected == pipeline = "ocr" /\ pc \in {"build", "done"} /\ Len(input) > 0

\* C9 as stated: for every candidate list and every permutation of it the
\* same candidate is selected as primary
C9_OrderIndependent ==
  Selected => Permute(input, perm)[primaryP] = input[primary]

\* the greatest score is the score of exactly one candidate of the list
SingleBest ==
  Cardinality({i \in 1..Len(input) :
     \A j \in 1..Len(input) : Scored[input[j]] <= Scored[input[i]]}) = 1

\* C9 as amended: for every candidate list and every permutation of it the
\* selected primary has the same score, and it is the same candidate whenever
\* one candidate alone has the greatest score
C9_OrderIndependentUpToTies ==
  Selected =>
    /\ Scored[Permute(input, perm)[primaryP]] = Scored[input[primary]]
    /\ SingleBest => perm[primaryP] = primary

\* a list with a single best candidate, selected at another position after
\* the reordering
C9_Witness ==
  /\ Selected
  /\ SingleBest
  /\ primaryP # primary
  /\ perm[primaryP] = primary

\* C10: the primary has a score greater than or equal to the score of every
\* other candidate, and of the candidates with the greatest score it is the
\* first of the input list
C10_FirstGreatest ==
  Selected =>
    /\ \A j \in 1..Len(input) : Scored[input[j]] <= Scored[input[primary]]
    /\ \A j \in 1..(primary - 1) : Scored[input[j]] < Scored[input[primary]]

\* the greatest score is shared, and the first of the sharers is the primary
C10_Witness ==
  /\ Selected
  /\ \E j \in (primary + 1)..Len(input) :
        /\ input[j] # input[primary]
        /\ Scored[input[j]] = Scored[input[primary]]

\* the terms of the score as the specification names them, for a candidate t:
\* the normalized header names, whether one of them is account-like, whether
\* both balance columns are among them, how many of them are canonical amount
\* column names (the 12 months and the two balances)
HeaderNames(t) == Tup([i \in 1..Len(t.columns) |-> AlphaNorm(Strip(t.columns[i]))])

HasAcctLikeColumn(t) ==
  \E n \in Range(HeaderNames(t)) :
     \/ StartsWith(n, <<"a","c","c","t">>)
     \/ Contains(n, <<"a","c","c","o","u","n","t">>) /\ Contains(n, <<"t","i","t","l","e">>)

HasBothBalanceColumns(t) ==
  {AlphaNorm(S_BeginningBalance), AlphaNorm(S_CurrentBalance)} \subseteq Range(HeaderNames(t))

MonthNamedColumns(t) ==
  Cardinality({i \in 1..Len(t.columns) :
     \E k \in 1..14 : HeaderNames(t)[i] = AlphaNorm(months[k])})

\* the score of the specification for a preferred width w, times 200
SpecScore(t, w) ==
  (IF HasAcctLikeColumn(t) THEN 400 ELSE 0)
  + (IF HasBothBalanceColumns(t) THEN 400 ELSE 0)
  + 300 * MonthNamedColumns(t)
  + (IF Len(t.rows) < 200 THEN Len(t.rows) ELSE 200)
  - 50 * Abs(Len(t.columns) - w)

\* the scores of the specification for the candidates of the corpus, computed
\* once
SpecScored == Tab([a \in OcrCorpus \X {15, 16} |-> SpecScore(a[1], a[2])])

\* C11 as stated: every candidate scored has the score
\* 2.0*acct-like + 2.0*both balances + 1.5*month columns + min(rows, 200)/200
\* - 0.25*|columns - 16|, so that 16 columns carry no width penalty
C11_ScoreWidth16 ==
  Selected => \A j \in 1..Len(input) : Scored[input[j]] = SpecScored[<<input[j], 16>>]

\* C11 as amended: the same score with the width penalty 0.25*|columns - 15|
\* (15 columns carry no penalty, 16 columns carry 0.25), the month columns
\* being those named as one of the 14 canonical amount columns
C11_ScoreWidth15 ==
  Selected => \A j \in 1..Len(input) : Scored[input[j]] = SpecScored[<<input[j], 15>>]

\* a 16-column candidate with every term of the score positive was scored
\* next to a narrower one
C11_Witness ==
  /\ Selected
  /\ \E j \in 1..Len(input) :
        /\ Len(input[j].columns) = 16
        /\ HasAcctLikeColumn(input[j]) /\ HasBothBalanceColumns(input[j])
        /\ MonthNamedColumns(input[j]) = 14
  /\ \E j \in 1..Len(input) : Len(input[j].columns) < 15

\* the document of the two fragments '50113 Cleaning - Other' has been coalesced
CleaningCoalesced ==
  /\ pipeline = "local" /\ input = <<G_Clean850, G_Clean900>>
  /\ pc = "done"

\* the rows of the table written whose Acct is 1000
Rows1000 == SelectSeq(best.rows, LAMBDA row : row[ColIdx(best, S_Acct)[1]] = V_1000)

\* the cell of the column labelled c in a row of the table written
BestCell(row, c) == row[ColIdx(best, c)[1]]

RowsFitted(lines, a, b, n) ==
  Tup([k \in 1..(b - a + 1) |->
     Tup([c \in 1..n |-> IF c <= Len(Cells(lines[a + k - 1]))
                          THEN Cells(lines[a + k - 1])[c] ELSE Blank])])

\* the table of the header at line i whose rows end before line e, every row
\* fitted to the header
FittedTable(lines, i, e) ==
  MdTable(Cells(lines[i]), RowsFitted(lines, i + 2, e - 1, Len(Cells(lines[i]))))

\* the tables of a page from line i on when no row is left out
RECURSIVE FittedTables(_, _)
FittedTables(lines, i) ==
  IF i > Len(lines) THEN <<>>
  ELSE IF ~IsTableStart(lines, i) THEN FittedTables(lines, i + 1)
  ELSE (IF Len(Cells(lines[i])) >= min_columns
           /\ RunEnd(lines, i + 2, StartsWithPipe) - (i + 2) >= min_rows
        THEN <<FittedTable(lines, i, RunEnd(lines, i + 2, StartsWithPipe))>>
        ELSE <<>>)
       \o FittedTables(lines, RunEnd(lines, i + 2, StartsWithPipe))

MdDone == pipeline = "md" /\ pc = "done"

\* C13: every row under a header is in the table extracted, with exactly as
\* many cells as the header: a shorter row filled on the right with empty
\* cells, a longer row cut to the width of the header
C13_UnevenRowsFitted == MdDone => md_tables = FittedTables(md_lines, 1)

\* a page whose table has a row of two cells under a header of three
C13_UnevenPage ==
  /\ MdDone
  /\ md_lines = <<L_Header, L_Sep, L_Row3, L_Row2, L_Row3>>

(***************************************************************************)
(* C14: the amount normalizer applied twice                                 *)
(***************************************************************************)
\* spellings of amounts besides those of the candidate tables
AmountSpellings ==
  {<<"-","5",".","0","0">>,
   <<"(","5",".","0","0",")">>,
   <<"1",",","0","0","0">>,
   <<" ","5"," ">>,
   <<"$","-","5">>,
   <<".","5">>,
   <<"5",".">>,
   <<"a","b","c">>,
   <<"5","-">>,
   <<"-","-","5">>,
   <<"(","-","5",")">>,
   <<"$","$","5">>,
   <<"$","1",",","2","3","4",".","5","6",")">>,
   <<"-","(","5",")">>,
   <<"$"," ","5">>,
   <<"1",",","0","0">>,
   <<"-">>,
   <<"(",")">>,
   <<"$">>,
   Blank, NaN}

\* the cells of the rows of a candidate table
CellsOf(t) == UNION {Range(t.rows[r]) : r \in 1..Len(t.rows)}

\* the values the normalizer can be handed
AmountValues == AmountSpellings \cup UNION {CellsOf(t) : t \in OcrCorpus}

Normalized == Tab([v \in AmountValues |-> normalize_amount(v)])
Renormalized == Tab([v \in AmountValues |-> normalize_amount(Normalized[v])])

\* the frame of a candidate with its amount columns normalized once and twice
NormalizedOnce == Tab([t \in OcrCorpus |-> NormalizeMonths(DataFrame(t.columns, t.rows))])
NormalizedTwice == Tab([t \in OcrCorpus |-> NormalizeMonths(NormalizedOnce[t])])

LookupBeforeExpiry ==
  /\ pipeline = "cache"
  /\ last_lookup.called
  /\ stored[last_lookup.key].result # NoResult
  /\ ~stored[last_lookup.key].changed
  /\ last_lookup.at - stored[last_lookup.key].at <= max_age_hours

\* C15 as stated: a lookup for the same unchanged file and the same processing
\* type, made before the entry expires, returns exactly the result stored
C15_LookupReturnsStored ==
  LookupBeforeExpiry => last_lookup.ret = stored[last_lookup.key].result

\* C15 as amended: such a lookup returns exactly the result stored unless
\* cleanup_old_entries has removed the entry since it was stored
C15_LookupReturnsStoredUnlessEvicted ==
  (LookupBeforeExpiry /\ ~stored[last_lookup.key].evicted)
    => last_lookup.ret = stored[last_lookup.key].result

\* a result stored twice under one key is found at the last hour of the
\* second entry, when the first would have expired
C15_Witness ==
  /\ LookupBeforeExpiry
  /\ ~stored[last_lookup.key].evicted
  /\ stores >= 2
  /\ last_lookup.at = stored[last_lookup.key].at + max_age_hours
  /\ last_lookup.ret = stored[last_lookup.key].result

ScanRows(d) == Min(6, Len(d.rows))

\* the label of column i put together from the scanned rows
CombinedLabel(d, i) ==
  JoinSp(SelectSeq(Tup([r \in 1..ScanRows(d) |-> Strip(CellText(d, r, i))]),
                   LAMBDA v : Len(v) > 0 /\ Lower(v) \notin {S_dashes, S_nan, S_none}))

\* a label with a letter in it that matches a month name or a balance label
MonthLikeWithLetters(h) == AlphaNorm(h) # Blank /\ _looks_like_month_header(h)

\* the frame with the scanned rows taken as header
MappedOf(d) ==
  DataFrame(Tup([i \in 1..Len(d.cols) |-> MapHeader(ColHeader(d, i, ScanRows(d)))]),
            SubSeq(d.rows, ScanRows(d) + 1, Len(d.rows)))

\* per frame: the columns whose label is month-like and has letters, the
\* columns the code takes for month-like, the months resolved by name, and
\* the frame with the scanned rows taken as header
ReshapeFacts ==
  Tab([d \in Range(Ingested) |->
     IF IsEmpty(d) THEN [letters |-> 0, labels |-> 0, resolved |-> 0, mapped |-> d]
     ELSE [letters |-> Cardinality({i \in 1..Len(d.cols) :
                         MonthLikeWithLetters(CombinedLabel(d, i))}),
           labels |-> Cardinality({i \in 1..Len(d.cols) :
                         ColHeader(d, i, ScanRows(d)) # Blank}),
           resolved |-> Cardinality({k \in 1..14 : BestSrcFor(MappedOf(d))[k] # Blank}),
           mapped |-> MappedOf(d)]])

\* the frames the reshape loop has been through
ReshapedSoFar ==
  IF pipeline = "local" THEN {dfs[i] : i \in 1..Min(next_df - 1, Len(dfs))} \ {d \in Range(dfs) : IsEmpty(d)}
  ELSE {}

\* C17: the first rows are consumed as header only when at least 6 columns
\* have a combined label that matches a month or balance name and contains a
\* letter; in every other case the candidate is returned with all its rows
\* and its columns unchanged
C17_HeaderOnlyWithLetterLabels ==
  \A d \in ReshapedSoFar : ReshapeFacts[d].letters < 6 => Reshaped[d] = d

\* the well-formed ledger of 16 columns has been through the reshape
C17_LedgerReshaped == Ingested[G_W16] \in ReshapedSoFar

\* the positional fallback is applied to the frame
PositionalFallback(d) ==
  /\ ReshapeFacts[d].labels >= 6
  /\ ReshapeFacts[d].resolved < 5
  /\ Len(d.cols) \in 12..16

\* the row of the canonical table that a row stands for position by position
Positional(row) ==
  <<AsStr(row[1]), AsStr(row[2])>>
    \o Tup([k \in 1..14 |-> IF k + 2 <= Len(row) THEN normalize_amount(row[k + 2]) ELSE Blank])

PositionalRows ==
  Tab([d \in Range(Ingested) |->
     IF Len(d.cols) < 12 THEN <<>>
     ELSE Tup([r \in 1..Len(ReshapeFacts[d].mapped.rows) |->
                Positional(ReshapeFacts[d].mapped.rows[r])])])

\* C18: after the positional fallback every output row has Acct and Account
\* Title from the first and second columns and in the k-th amount column the
\* normalized value of column k+2, and every row with an amount is in the output
C18_PositionalRows ==
  \A d \in ReshapedSoFar :
    PositionalFallback(d) =>
      /\ Range(Reshaped[d].rows) \subseteq Range(PositionalRows[d])
      /\ \A r \in 1..Len(PositionalRows[d]) :
            (\E k \in 3..16 : PositionalRows[d][r][k] # Blank)
              => PositionalRows[d][r] \in Range(Reshaped[d].rows)

\* fewer than 5 amount columns are resolved by name
FewResolved(d) == ReshapeFacts[d].labels >= 6 /\ ReshapeFacts[d].resolved < 5

IsBareCode(v) == Len(v) \in 3..10 /\ \A i \in 1..Len(v) : IsDigit(v[i])

\* the first attempt of the splitter does not apply to the frame
FirstAttemptFails(b) == ~(b.col # Blank /\ 100 * b.hits >= 15 * b.nonempty)

\* per frame that reaches the splitter without a column for its first
\* attempt: the chosen account column and the rows the splitter gives
SplitFacts ==
  Tab([d \in Range(Ingested) |->
     LET p == ReshapePlan(d)
     IN IF p.kind = "rows" /\ FirstAttemptFails(BestSplitCol(p.df))
        THEN [second |-> TRUE, ser |-> Series(p.df, AcctCol0(p.df)),
              out |-> OutData(p.df, p.best_src_for).rows]
        ELSE [second |-> FALSE, ser |-> <<>>, out |-> <<>>]])

\* C20: when the splitter falls back to the chosen account column, a value of
\* that column made only of 3 to 10 digits is the Acct of its row, whole
C20_BareCodeKeptWhole ==
  \A d \in ReshapedSoFar :
    SplitFacts[d].second =>
      \A r \in 1..Len(SplitFacts[d].ser) :
        IsBareCode(Strip(AsStr(SplitFacts[d].ser[r])))
          => SplitFacts[d].out[r][1] = Strip(AsStr(SplitFacts[d].ser[r]))

(***************************************************************************)
(* C21..C23: the account split of reshape_financial_table                  *)
(***************************************************************************)
\* the second attempt of the splitter applies to the frame: the pattern of the
\* second attempt matches at least 30% of the non-empty cells of the column
SecondAttemptHits(df, col) ==
  10 * Cardinality({r \in 1..Len(df.rows) :
          /\ Strip(AsStr(Series(df, col)[r])) # Blank
          /\ ExtractFallback(AsStr(Series(df, col)[r])).matched})
    >= 3 * Max(1, NonEmptyCount(Series(df, col)))

\* what the splitter does with a frame: "first" (the best non-month column is
\* split), "second" (the chosen account column is split) or "none", the column
\* it splits, and what the pattern gives for each cell of that column
SplitOf(df) ==
  IF ~FirstAttemptFails(BestSplitCol(df))
    THEN [attempt |-> "first", src |-> BestSplitCol(df).col,
          ex |-> Tup([r \in 1..Len(df.rows) |->
                    ExtractCodeTitle(AsStr(Series(df, BestSplitCol(df).col)[r]))])]
  ELSE IF SecondAttemptHits(df, AcctCol0(df))
    THEN [attempt |-> "second", src |-> AcctCol0(df),
          ex |-> Tup([r \in 1..Len(df.rows) |->
                    ExtractFallback(AsStr(Series(df, AcctCol0(df))[r]))])]
  ELSE [attempt |-> "none", src |-> Blank, ex |-> <<>>]

\* per frame that reaches the splitter: the frame the splitter gets, what the
\* splitter does with it, the cells of the column it splits, and the canonical
\* rows, one for each row of the frame, before the empty rows are filtered out
SplitRows ==
  Tab([d \in Range(Ingested) |->
     LET p == ReshapePlan(d)
     IN IF p.kind = "rows"
        THEN [df |-> p.df, split |-> SplitOf(p.df),
              ser |-> IF SplitOf(p.df).attempt = "none" THEN <<>>
                      ELSE Series(p.df, SplitOf(p.df).src),
              out |-> OutData(p.df, p.best_src_for).rows]
        ELSE [df |-> d, split |-> [attempt |-> "none", src |-> Blank, ex |-> <<>>],
              ser |-> <<>>, out |-> <<>>]])

\* C21: when the best non-month column is split, every output row that comes
\* from a cell matching the code+title pattern has the captured code as Acct
\* and the remaining text as Account Title, whatever the column is named
C21_MatchingRowsSplit ==
  \A d \in ReshapedSoFar :
    SplitRows[d].split.attempt = "first" =>
      \A r \in 1..Len(SplitRows[d].ser) :
        (/\ MatchesCodeTitle(AsStr(SplitRows[d].ser[r]))
         /\ SplitRows[d].out[r] \in Range(Reshaped[d].rows))
          => /\ SplitRows[d].out[r][1] = ExtractCodeTitle(AsStr(SplitRows[d].ser[r])).code
             /\ SplitRows[d].out[r][2] = ExtractCodeTitle(AsStr(SplitRows[d].ser[r])).title

\* C22: when a column is split, every row with an amount whose cell of that
\* column has text that does not match the pattern is in the output with an
\* empty Acct and that text as Account Title
C22_UnmatchedRowsKept ==
  \A d \in ReshapedSoFar :
    SplitRows[d].split.attempt # "none" =>
      \A r \in 1..Len(SplitRows[d].ser) :
        (/\ Strip(AsStr(SplitRows[d].ser[r])) # Blank
         /\ ~SplitRows[d].split.ex[r].matched
         /\ \E k \in 3..16 : SplitRows[d].out[r][k] # Blank)
          => [SplitRows[d].out[r] EXCEPT ![1] = Blank,
                                         ![2] = Strip(AsStr(SplitRows[d].ser[r]))]
               \in Range(Reshaped[d].rows)

\* the column labelled c of the frame has a value in some row
Populated(df, c) ==
  HasCol(df, c) /\ \E r \in 1..Len(df.rows) : Strip(AsStr(Series(df, c)[r])) # Blank

\* C23: when a column is split in a frame that has a populated Acct or Account
\* Title column other than the column split, the values of that column are the
\* values of the output column of the same name
C23_PopulatedColumnsKept ==
  \A d \in ReshapedSoFar :
    SplitRows[d].split.attempt # "none" =>
      \A k \in 1..2 :
        (Populated(SplitRows[d].df, canonical[k]) /\ canonical[k] # SplitRows[d].split.src)
          => \A r \in 1..Len(SplitRows[d].out) :
               SplitRows[d].out[r][k] = AsStr(Series(SplitRows[d].df, canonical[k])[r])

(***************************************************************************)
(* C24: the two column mappers against the ordered rules                   *)
(***************************************************************************)
\* the canonical column the ordered rules give a header (Blank: unmatched):
\* (a) the normalized header is acct or account, or holds acct;
\* (b) it holds account and title; (c) beginning and balance; (d) current and
\* balance; (e) it is in the alias table; (f) it holds a month name
RuleMapOf(h) ==
  LET n == AlphaNorm(h)
      has(w) == Contains(n, w)
      month == SelectSeq(SubSeq(months, 2, 13), LAMBDA m : has(AlphaNorm(m)))
  IN IF n = <<"a","c","c","o","u","n","t">> \/ has(<<"a","c","c","t">>) THEN S_Acct
     ELSE IF has(<<"a","c","c","o","u","n","t">>) /\ has(<<"t","i","t","l","e">>)
       THEN S_AccountTitle
     ELSE IF has(<<"b","e","g","i","n","n","i","n","g">>) /\ has(<<"b","a","l","a","n","c","e">>)
       THEN S_BeginningBalance
     ELSE IF has(<<"c","u","r","r","e","n","t">>) /\ has(<<"b","a","l","a","n","c","e">>)
       THEN S_CurrentBalance
     ELSE IF n \in DOMAIN header_aliases THEN header_aliases[n]
     ELSE IF Len(month) > 0 THEN month[1]
     ELSE Blank

\* the headers write_tables_from_ocr has mapped: the stripped labels of the
\* table it selected
OcrMappedHeaders ==
  IF pipeline = "ocr" /\ pc = "done" /\ primary > 0
  THEN {Strip(input[primary].columns[i]) : i \in 1..Len(input[primary].columns)}
  ELSE {}

\* the headers normalize_cols has mapped: the labels of the frames coalesced
LocalMappedHeaders ==
  IF pipeline = "local" /\ all_merged # NoTable
  THEN UNION {Range(reshaped[i].cols) : i \in 1..Len(reshaped)}
  ELSE {}

\* C24: each mapper gives every header it maps the canonical column of the
\* first rule that matches; a header that normalizes to account is mapped to
\* Acct by both
C24_MappersFollowRules ==
  /\ \A h \in OcrMappedHeaders : RemapOf(h) = RuleMapOf(h)
  /\ \A h \in LocalMappedHeaders : RenameOf(h) = RuleMapOf(h)

(***************************************************************************)
(* C25: the source column of an amount column                              *)
(***************************************************************************)
\* the columns of the frame that can satisfy the k-th amount column
SourcesOf(df, k) ==
  {i \in 1..Len(df.cols) : Contains(SpaceNorm(df.cols[i]), SpaceNorm(months[k]))}

\* the cells of column i that are not empty, and those that are amounts
FilledCells(df, i) == {r \in 1..Len(df.rows) : Strip(AsStr(df.rows[r][i])) # Blank}
AmountCells(df, i) == {r \in 1..Len(df.rows) : is_amount(df.rows[r][i])}

\* column i has at least the fraction of amounts among its non-empty cells
\* that column j has
AtLeastAsClean(df, i, j) ==
  Cardinality(AmountCells(df, j)) * Max(1, Cardinality(FilledCells(df, i)))
    <= Cardinality(AmountCells(df, i)) * Max(1, Cardinality(FilledCells(df, j)))

\* the columns with the highest fraction among those that can satisfy the
\* k-th amount column
CleanestSources(df, k) ==
  {i \in SourcesOf(df, k) : \A j \in SourcesOf(df, k) : AtLeastAsClean(df, i, j)}

\* per frame whose amount columns are resolved by name: every amount column
\* that several columns can satisfy has the values of one of the cleanest
SourceChoice ==
  Tab([d \in Range(Ingested) |->
     IF ReshapePlan(d).kind = "rows" /\ ReshapeFacts[d].resolved >= 5
     THEN [several |-> \E k \in 1..14 : Cardinality(SourcesOf(SplitRows[d].df, k)) > 1,
           cleanest |-> \A k \in 1..14 :
              Cardinality(SourcesOf(SplitRows[d].df, k)) > 1 =>
                \E i \in CleanestSources(SplitRows[d].df, k) :
                  \A r \in 1..Len(SplitRows[d].out) :
                    SplitRows[d].out[r][k + 2] = normalize_amount(SplitRows[d].df.rows[r][i])]
     ELSE [several |-> FALSE, cleanest |-> TRUE]])

\* C25: an amount column that several observed columns can satisfy has the
\* values of the column with the highest fraction of amount-shaped values
\* among its non-empty cells
C25_CleanestSourceTaken ==
  \A d \in ReshapedSoFar : SourceChoice[d].several => SourceChoice[d].cleanest

(***************************************************************************)
(* C26: the header classifier                                              *)
(***************************************************************************)
\* the header vocabulary: acct, account, account title, the two balance labels
\* and the twelve month names
HeaderVocabulary ==
  {Lower(canonical[k]) : k \in 1..16} \cup {<<"a","c","c","o","u","n","t">>}

\* the text of a row: its non-empty cells, lowercased and stripped, one space
\* between them
RowText(cells) ==
  JoinSp(SelectSeq(Tup([i \in 1..Len(cells) |-> Strip(Lower(cells[i]))]),
                   LAMBDA c : c # Blank))

\* the tokens of the vocabulary the row matches
TokensIn(cells) == {tok \in HeaderVocabulary : Contains(RowText(cells), tok)}

\* per candidate with a first row: the tokens its first row matches
FirstRowTokens ==
  Tab([g \in {x \in AllGrids : Len(x) > 0} |-> TokensIn(g[1])])

\* at least 3 distinct tokens, or both balance labels
HeaderByTokens(toks) ==
  \/ Cardinality(toks) >= 3
  \/ {Lower(S_BeginningBalance), Lower(S_CurrentBalance)} \subseteq toks

\* the first row of candidate i was taken as the header of its frame
TakenAsHeader(i) ==
  dfs[i].cols = input[i][1] /\ dfs[i].rows = Tail(input[i])

\* C26: the first row of a candidate of two or more rows is classified as a
\* header exactly when it matches at least 3 distinct tokens of the header
\* vocabulary or contains both balance labels
C26_HeaderExactlyWhen ==
  (pipeline = "local" /\ pc # "extract") =>
    \A i \in 1..Len(input) :
      Len(input[i]) > 1 =>
        (TakenAsHeader(i) <=> HeaderByTokens(FirstRowTokens[input[i]]))

\* one document with a first row of three tokens taken as header, one of two
\* tokens not taken, and one taken for its two balance labels alone
C26_Witness ==
  /\ pipeline = "local" /\ pc # "extract"
  /\ \E i \in 1..Len(input) :
        /\ Len(input[i]) > 1 /\ TakenAsHeader(i)
        /\ Cardinality(FirstRowTokens[input[i]]) = 3
        /\ Lower(S_CurrentBalance) \notin FirstRowTokens[input[i]]
  /\ \E i \in 1..Len(input) :
        /\ Len(input[i]) > 1 /\ ~TakenAsHeader(i)
        /\ Cardinality(FirstRowTokens[input[i]]) = 2
  /\ \E i \in 1..Len(input) :
        /\ Len(input[i]) > 1 /\ TakenAsHeader(i)
        /\ Cardinality(FirstRowTokens[input[i]]) = 2

(***************************************************************************)
(* C27: under every interleaving of the threads that call                  *)
(* _ensure_mistral_client, the client is constructed and assigned at most  *)
(* once, and the global keeps the client of that one assignment            *)
(***************************************************************************)
C27_ClientSetOnce ==
  /\ Len(client_writes) <= 1
  /\ mistral_client = Len(client_writes)

\* a thread that passed the quick check before the client was set holds the
\* lock after another thread has set it
C27_Witness ==
  /\ pipeline = "batch"
  /\ mistral_client = 1
  /\ \E c \in Callers : c # client_writes[1] /\ c_pc[c] = "init"

(***************************************************************************)
(* C28: when pool workers of ConcurrentProcessor call get_cache() at the   *)
(* same time, at most one IntelligentCache is ever created and every       *)
(* caller gets that one instance                                           *)
(***************************************************************************)
C28_OneCache ==
  /\ cache_made <= 1
  /\ \A c \in Callers : c_cache[c] # 0 => c_cache[c] = 1

\* two pool workers are inside get_cache() at the same time
C28_Witness ==
  /\ pipeline = "batch"
  /\ \E c, d \in 1..MaxFiles :
       c # d /\ c_pc[c] \in {"cache", "new", "ret"} /\ c_pc[d] \in {"cache", "new", "ret"}

(***************************************************************************)
(* C29: process_files_concurrent returns exactly one result for every      *)
(* input file, none missing and none twice, whatever the order in which    *)
(* the workers finish and whichever files fail                             *)
(***************************************************************************)
C29_OneResultPerFile ==
  (pipeline = "batch" /\ pc = "return") =>
    /\ Len(results) = Len(files)
    /\ \A f \in 1..Len(files) :
         Cardinality({i \in 1..Len(results) : results[i].file = f}) = 1

\* the batch returned; the pool finished the last file first, and it failed
C29_Witness ==
  /\ pipeline = "batch"
  /\ pc = "return"
  /\ Len(files) > 1
  /\ results[1].file = Len(files)
  /\ ~results[1].success
  /\ \E i \in 1..Len(results) : results[i].success

(***************************************************************************)
(* C30: retry_with_backoff always ends, after at most max_retries + 1      *)
(* calls of the function; it returns the value of the first call that      *)
(* succeeds and calls no more, and when every call fails it raises the     *)
(* exception of the last call                                              *)
(***************************************************************************)
C30_RetryTerminates ==
  /\ <>(pc = "done")
  /\ [](/\ calls <= max_retries + 1
        /\ retry_result.kind = "returned" =>
             /\ retry_result.call = calls
             /\ Len(error_history) = calls - 1
        /\ retry_result.kind = "raised" =>
             /\ calls = max_retries + 1
             /\ Len(error_history) = calls
             /\ retry_result.call = calls
             /\ retry_result.what = error_history[calls].error)

\* every call failed, with different exceptions, and the last one was raised
C30_Witness ==
  /\ pipeline = "retry"
  /\ pc = "done"
  /\ retry_result.kind = "raised"
  /\ max_retries >= 2
  /\ error_history[1].error # error_history[calls].error

====
